---- MODULE Spec2Model ----
(***************************************************************************)
(* Model of the stream drivers of multipart-write: the state machines that *)
(* pull parts from a Stream and push them into a MultipartWrite, yielding  *)
(* the completed outputs.                                                  *)
(*                                                                         *)
(* Every action is one iteration of the `loop` of a driver's poll          *)
(* function.  An iteration either returns to the caller (result is         *)
(* "Pending", "Item" or "End") or falls through to the next iteration      *)
(* (result is "Running").  Everything a driver keeps between iterations is *)
(* in its struct, so an iteration is atomic.                               *)
(*                                                                         *)
(* The writer is the TestWriter of tests/main.rs, generalised by the       *)
(* MultipartWrite contract: poll_ready, poll_flush and poll_complete may   *)
(* also answer Pending or Err, and start_send may answer Err.  The source  *)
(* is a finite stream that may answer Pending.  Option<T> is a sequence of *)
(* length at most one.                                                     *)
(***************************************************************************)
EXTENDS Integers, Sequences, FiniteSets, TLC

\* Bounds of the model.
MaxLen == 3        \* longest source
MaxPending == 2    \* Pending answers in one run
MaxFail == 1       \* Err answers in one run
MaxCompleted == 2  \* largest completion count after which a writer fuses
MaxRepoll == 1     \* polls of a stream after it has ended
MaxAsk == 2        \* poll_complete calls a caller of TrySend gets through
MaxCalls == 5      \* polls a caller makes on a writer adapter in one run
MaxCapacity == 2   \* largest capacity of a Buffered

VARIABLES
    source,     \* the upstream Stream: the items it has not handed out yet
    f,          \* the completion closure F: the set of Ret on which it is true
    writer,     \* the TestWriter
    pulled,     \* history: the items the source has handed out, in order
    sent,       \* history: the parts passed to start_send, in order
    yielded,    \* history: the items the driver has yielded, in order
    hist,       \* history: counters of the calls made and of their answers
    result,     \* what the last loop iteration returned to the caller
    feed,       \* FeedMultipartWrite with its WriteBuf
    assembled,  \* Assembled
    fuse,       \* the Fuse around the writer that Assembled drives
    try_send,   \* the TrySend inside WriteUntil and CompleteWhen
    write_until,    \* WriteUntil
    complete_when,  \* CompleteWhen
    frozen,     \* Frozen with its StreamWriter
    collect,    \* CollectComplete with a source and a writer of its own
    judged,     \* history: the Ret the closure of WriteUntil was applied to
    write_complete,     \* WriteComplete
    collect_completed,  \* CollectCompleted with its stream of Results
    send_part,  \* SendPart with its Feed
    caller,     \* the caller of a writer adapter: its polls and its grant
    buffered,   \* Buffered
    with_writer,    \* With
    lift,       \* Lift with its inner writer
    fold_ret,   \* FoldRet
    fanout,     \* Fanout with its second writer
    multi_async_writer, \* MultiAsyncWriter with its AsyncWrite
    extend,     \* Extend
    assemble,   \* Assemble, the future that drives a writer to completion
    then_writer,    \* Then
    on_complete,    \* OnComplete
    bootstrapped,   \* Bootstrapped
    for_each_written    \* ForEachWritten with its StreamWriter

vars ==
    <<source, f, writer, pulled, sent, yielded, hist, result,
      feed, assembled, fuse, try_send, write_until, complete_when,
      frozen, collect, judged, write_complete, collect_completed, send_part,
      caller, buffered, with_writer, lift, fold_ret, fanout,
      multi_async_writer, extend, assemble,
      then_writer, on_complete, bootstrapped, for_each_written>>

\* The adapters added last.
Newer == <<then_writer, on_complete, bootstrapped, for_each_written>>

\* The writer adapters, their caller and the future that drives one.
Adapters ==
    <<caller, buffered, with_writer, lift, fold_ret, fanout,
      multi_async_writer, extend, assemble, Newer>>

\* The drivers added after the first ones; their runs leave the adapters
\* alone as well.
Later == <<write_complete, collect_completed, send_part, Adapters>>

\* The drivers a run of FeedMultipartWrite leaves alone.
NotFeed ==
    <<assembled, fuse, try_send, write_until, complete_when, frozen, collect,
      judged, Later>>
\* The drivers a run of Assembled leaves alone.
NotAssembled ==
    <<feed, try_send, write_until, complete_when, frozen, collect,
      judged, Later>>
\* The drivers a run of WriteUntil leaves alone.
NotWriteUntil ==
    <<feed, assembled, fuse, complete_when, frozen, collect, Later>>
\* The drivers a run of CompleteWhen leaves alone.
NotCompleteWhen ==
    <<feed, assembled, fuse, write_until, frozen, collect, judged, Later>>
\* The drivers a run of Frozen leaves alone.
NotFrozen ==
    <<feed, assembled, fuse, try_send, write_until, complete_when, collect,
      judged, Later>>
\* What a run of CollectComplete leaves alone: it has its own source,
\* writer and histories, and shares only the counters.
NotCollect ==
    <<source, f, writer, pulled, sent, yielded, result,
      feed, assembled, fuse, try_send, write_until, complete_when, frozen,
      judged, Later>>
\* The first drivers, which a run of a later one leaves alone.
First ==
    <<feed, assembled, fuse, try_send, write_until, complete_when, frozen,
      collect, judged, Adapters>>

\* The stream drivers, which a run of a writer adapter leaves alone.
Streams ==
    <<feed, assembled, try_send, write_until, complete_when, frozen,
      collect, judged, write_complete, collect_completed, send_part>>
\* What a run of one of the first writer adapters leaves alone besides
\* the other adapters of its kind.
Drivers == <<Streams, Newer>>
\* The first writer adapters, which a run of a newer one leaves alone.
Wrappers ==
    <<fuse, buffered, with_writer, lift, fold_ret, fanout,
      multi_async_writer, extend, assemble>>
\* What a run of Then leaves alone.
NotThen == <<Streams, Wrappers, on_complete, bootstrapped, for_each_written>>
\* The adapters a run of Buffered leaves alone.
NotBuffered ==
    <<fuse, with_writer, lift, fold_ret, fanout, multi_async_writer, extend,
      assemble>>
\* The adapters a run of Fuse leaves alone.
NotFuse ==
    <<buffered, with_writer, lift, fold_ret, fanout, multi_async_writer,
      extend,
      assemble>>
\* The adapters a run of With leaves alone.
NotWith ==
    <<fuse, buffered, lift, fold_ret, fanout, multi_async_writer, extend,
      assemble>>
\* The adapters a run of Lift leaves alone.
NotLift ==
    <<fuse, buffered, with_writer, fold_ret, fanout, multi_async_writer,
      extend>>
\* The adapters a run of FoldRet leaves alone.
NotFoldRet ==
    <<fuse, buffered, with_writer, lift, fanout, multi_async_writer, extend,
      assemble>>
\* The adapters a run of Fanout leaves alone.
NotFanout ==
    <<fuse, buffered, with_writer, lift, fold_ret, multi_async_writer,
      extend,
      assemble>>
\* The adapters a run of MultiAsyncWriter leaves alone.
NotMultiAsyncWriter ==
    <<fuse, buffered, with_writer, lift, fold_ret, fanout, extend,
      assemble>>
\* The adapters a run of Extend leaves alone.
NotExtend ==
    <<fuse, buffered, with_writer, lift, fold_ret, fanout,
      multi_async_writer,
      assemble>>

None == <<>>
Some(x) == <<x>>

RECURSIVE Range(_, _)
\* futures iter(a..=b)
Range(a, b) == IF a > b THEN <<>> ELSE <<a>> \o Range(a + 1, b)

RECURSIVE Concat(_)
Concat(ss) == IF ss = <<>> THEN <<>> ELSE Head(ss) \o Concat(Tail(ss))

Sources == {Range(1, n) : n \in 0..MaxLen}
Policies == SUBSET (1..MaxLen)
MaxCompletedOpts == {None} \cup {Some(n) : n \in 0..MaxCompleted}

\* The whole source of this run.
Input == pulled \o source

\* The outputs yielded as Ok items, in order.
Artifacts ==
    LET oks == SelectSeq(yielded, LAMBDA y : y.ok)
    IN  [i \in 1..Len(oks) |-> oks[i].out]

Errors == SelectSeq(yielded, LAMBDA y : ~y.ok)

Ok(out) == [ok |-> TRUE, out |-> out]
Err == [ok |-> FALSE, out |-> <<>>]

(***************************************************************************)
(* The environment: answers of the writer and of the source.               *)
(***************************************************************************)
PollAnswers == {"Ready", "Pending", "Err"}
SendAnswers == {"Ready", "Err"}

\* An answer the bounds still allow after the calls counted in h.
Can(a, h) ==
    \/ a = "Ready"
    \/ a = "Pending" /\ h.pendings < MaxPending
    \/ a = "Err" /\ h.fails < MaxFail

\* "Skip" stands for a call the code does not reach.
CanSkip(a, h) == a = "Skip" \/ Can(a, h)

\* The call `call` is issued and answers a.  Besides the counters, the
\* history keeps the last call with its answer, whether a part was sent
\* and not flushed since (dirty), the start_send calls not directly
\* preceded by a poll_ready that answered Ready (cold_sends), the
\* poll_complete calls issued while dirty (dirty_completes), and the parts
\* sent since the last answer of poll_complete (fresh) and ever (oks).
Count(h, call, a) ==
    [h EXCEPT ![call] = @ + 1,
              !.pendings = IF a = "Pending" THEN @ + 1 ELSE @,
              !.fails = IF a = "Err" THEN @ + 1 ELSE @,
              !.last = <<call, a>>,
              !.cold_sends =
                  IF call = "sends" /\ h.last # <<"readys", "Ready">>
                  THEN @ + 1 ELSE @,
              !.dirty =
                  IF call = "sends" /\ a = "Ready" THEN TRUE
                  ELSE IF call \in {"flushes", "completes"} /\ a = "Ready"
                       THEN FALSE ELSE @,
              !.dirty_completes =
                  IF call = "completes" /\ h.dirty THEN @ + 1 ELSE @,
              !.oks = IF call = "sends" /\ a = "Ready" THEN @ + 1 ELSE @,
              !.fresh =
                  IF call = "sends" /\ a = "Ready" THEN @ + 1
                  ELSE IF call = "completes" /\ a # "Pending" THEN 0 ELSE @]

CountSkip(h, call, a) == IF a = "Skip" THEN h ELSE Count(h, call, a)

HistInit ==
    [pendings |-> 0, fails |-> 0, polls |-> 0,
     readys |-> 0, sends |-> 0, flushes |-> 0, completes |-> 0,
     last |-> <<"none", "none">>, cold_sends |-> 0,
     dirty |-> FALSE, dirty_completes |-> 0, fresh |-> 0, oks |-> 0,
     repolls |-> 0,
     readys2 |-> 0, sends2 |-> 0, flushes2 |-> 0, completes2 |-> 0,
     resolves |-> 0, writes |-> 0]

\* Number of operations issued on the writer.
WriterOps(h) == h.readys + h.sends + h.flushes + h.completes

(***************************************************************************)
(* TestWriter                                                              *)
(***************************************************************************)
TestWriter(max) ==
    [inner |-> <<>>, multiplier |-> 1, completed |-> 0, max_completed |-> max]

start_send(w, part) == [w EXCEPT !.inner = Append(@, w.multiplier * part)]

\* The Ret of start_send.
Ret(part) == part

poll_complete(w) == [w EXCEPT !.inner = <<>>, !.completed = @ + 1]

\* Faulty variant: the writer fuses one completion late.
is_terminated_late(w) ==
    /\ w.max_completed # None
    /\ w.max_completed[1] < w.completed

is_terminated(w) ==
    /\ w.max_completed # None
    /\ w.max_completed[1] <= w.completed

\* Stream::poll_next on the source answering Some(next).
Pull ==
    /\ source # <<>>
    /\ source' = Tail(source)
    /\ pulled' = Append(pulled, Head(source))

(***************************************************************************)
(* FeedMultipartWrite                                                      *)
(***************************************************************************)
FeedNew ==
    [state |-> "Write", stream_terminated |-> FALSE, is_terminated |-> FALSE,
     buffered |-> None, is_empty |-> FALSE]

\* Faulty variant: the activity flag is ignored.
WriteBuf_is_empty_buffer_only(wb) == wb.buffered = None

WriteBuf_is_empty(wb) == wb.is_empty /\ wb.buffered = None

\* Faulty variant: the pulled part is not stored.
set_buffered_lost(wb, t) == wb

set_buffered(wb, t) == [wb EXCEPT !.buffered = Some(t)]

\* Faulty variant: an error moves on to the next source item.
Feed_on_error_next(fd) == [fd EXCEPT !.state = "Next"]

\* State::Write on Err(e): the state is set to Write again.
Feed_on_error(fd) == [fd EXCEPT !.state = "Write"]

\* Faulty variant: the state stays Complete after an output.
Feed_completed_again(fd) == "Complete"

\* State::Complete after an output: Shutdown if the source has ended,
\* Write otherwise.
Feed_completed(fd) == IF fd.stream_terminated THEN "Shutdown" ELSE "Write"

\* The loop head: a fused writer ends the stream.
FeedFused ==
    /\ result # "End"
    /\ UNCHANGED NotFeed
    /\ is_terminated(writer)
    /\ feed' = [feed EXCEPT !.is_terminated = TRUE]
    /\ result' = "End"
    /\ UNCHANGED <<source, f, writer, pulled, sent, yielded, hist>>

\* State::Write with WriteBuf::poll_inner_send.
FeedWrite ==
    /\ result # "End"
    /\ UNCHANGED NotFeed
    /\ ~is_terminated(writer)
    /\ feed.state = "Write"
    /\ UNCHANGED <<source, f, pulled>>
    /\ IF feed.buffered = None
       THEN /\ feed' = [feed EXCEPT !.state = "Next"]
            /\ result' = "Running"
            /\ UNCHANGED <<writer, sent, yielded, hist>>
       ELSE \E r \in PollAnswers :
            /\ Can(r, hist)
            /\ LET h1 == Count(hist, "readys", r) IN
               CASE r = "Pending" ->
                    \E fl \in PollAnswers :
                    /\ Can(fl, h1)
                    /\ hist' = Count(h1, "flushes", fl)
                    /\ UNCHANGED <<writer, sent>>
                    /\ IF fl = "Err"
                       THEN /\ yielded' = Append(yielded, Err)
                            /\ feed' = Feed_on_error(feed)
                            /\ result' = "Item"
                       ELSE /\ yielded' = yielded
                            /\ feed' = feed
                            /\ result' = "Pending"
                 [] r = "Err" ->
                    /\ hist' = h1
                    /\ yielded' = Append(yielded, Err)
                    /\ feed' = Feed_on_error(feed)
                    /\ result' = "Item"
                    /\ UNCHANGED <<writer, sent>>
                 [] r = "Ready" ->
                    \E s \in SendAnswers :
                    /\ Can(s, h1)
                    /\ hist' = Count(h1, "sends", s)
                    /\ sent' = Append(sent, feed.buffered[1])
                    /\ IF s = "Err"
                       THEN /\ feed' = Feed_on_error(
                                       [feed EXCEPT !.buffered = None])
                            /\ yielded' = Append(yielded, Err)
                            /\ result' = "Item"
                            /\ writer' = writer
                       ELSE /\ writer' = start_send(writer, feed.buffered[1])
                            /\ feed' = [feed EXCEPT
                                  !.buffered = None,
                                  !.is_empty = FALSE,
                                  !.state = IF Ret(feed.buffered[1]) \in f
                                            THEN "Complete" ELSE "Write"]
                            /\ yielded' = yielded
                            /\ result' = "Running"

\* State::Next.
FeedNext ==
    /\ result # "End"
    /\ UNCHANGED NotFeed
    /\ ~is_terminated(writer)
    /\ feed.state = "Next"
    /\ UNCHANGED <<f, writer, sent, yielded>>
    /\ \/ /\ Can("Pending", hist)
          /\ hist' = Count(hist, "polls", "Pending")
          /\ result' = "Pending"
          /\ UNCHANGED <<source, pulled, feed>>
       \/ /\ Pull
          /\ hist' = Count(hist, "polls", "Ready")
          /\ feed' = [set_buffered(feed, Head(source)) EXCEPT !.state = "Write"]
          /\ result' = "Running"
       \/ /\ source = <<>>
          /\ hist' = Count(hist, "polls", "Ready")
          /\ UNCHANGED <<source, pulled>>
          /\ IF WriteBuf_is_empty(feed)
             THEN /\ feed' = [feed EXCEPT !.stream_terminated = TRUE]
                  /\ result' = "End"
             ELSE /\ feed' = [feed EXCEPT !.stream_terminated = TRUE,
                                          !.state = "Complete"]
                  /\ result' = "Running"

\* State::Complete with WriteBuf::poll_inner_complete.
FeedComplete ==
    /\ result # "End"
    /\ UNCHANGED NotFeed
    /\ ~is_terminated(writer)
    /\ feed.state = "Complete"
    /\ UNCHANGED <<source, f, pulled, sent>>
    /\ \E c \in PollAnswers :
       /\ Can(c, hist)
       /\ hist' = Count(hist, "completes", c)
       /\ CASE c = "Pending" ->
               /\ result' = "Pending"
               /\ UNCHANGED <<writer, yielded, feed>>
            [] c = "Err" ->
               /\ yielded' = Append(yielded, Err)
               /\ result' = "Item"
               /\ UNCHANGED <<writer, feed>>
            [] c = "Ready" ->
               /\ writer' = poll_complete(writer)
               /\ yielded' = Append(yielded, Ok(writer.inner))
               /\ feed' = [feed EXCEPT
                     !.is_empty = TRUE,
                     !.state = Feed_completed(feed)]
               /\ result' = "Item"

\* State::Shutdown.
FeedShutdown ==
    /\ result # "End"
    /\ UNCHANGED NotFeed
    /\ ~is_terminated(writer)
    /\ feed.state = "Shutdown"
    /\ feed' = [feed EXCEPT !.is_terminated = TRUE]
    /\ result' = "End"
    /\ UNCHANGED <<source, f, writer, pulled, sent, yielded, hist>>

(***************************************************************************)
(* Fuse                                                                    *)
(***************************************************************************)
\* The closure of Fuse is the set of completion counts at which it answers
\* true: it is applied to the output of the k-th completion.
FuseClosures == SUBSET (1..MaxCompleted)

FuseNew(c) == [is_terminated |-> FALSE, f |-> c]

\* Faulty variant: the answer of the closure is dropped.
Fuse_completed_never(fu, w) == fu

\* Fuse::poll_complete after the inner writer answered Ready(Ok(res)): w is
\* the inner writer after that completion.
Fuse_completed(fu, w) ==
    IF w.completed \in fu.f THEN [fu EXCEPT !.is_terminated = TRUE] ELSE fu

(***************************************************************************)
(* Assembled                                                               *)
(***************************************************************************)
\* Faulty variant: a new Assembled counts as written to.
AssembledNew_not_empty ==
    [buffered |-> None, state |-> "PollNext", empty |-> FALSE,
     is_terminated |-> FALSE]

AssembledNew ==
    [buffered |-> None, state |-> "PollNext", empty |-> TRUE,
     is_terminated |-> FALSE]

\* The Ret of Fuse::start_send, given to the closure of Assembled.
AssembledPolicies == SUBSET ({None} \cup {Some(Ret(p)) : p \in 1..MaxLen})

\* The first half of the loop body: send what is in the buffer.
AssembledSend ==
    /\ result # "End"
    /\ UNCHANGED NotAssembled
    /\ assembled.buffered # None
    /\ UNCHANGED <<source, f, pulled, fuse>>
    /\ IF fuse.is_terminated
       THEN \* poll_ready and start_send of a terminated Fuse
            /\ sent' = Append(sent, assembled.buffered[1])
            /\ assembled' = [assembled EXCEPT
                  !.buffered = None,
                  !.empty = FALSE,
                  !.state = IF None \in f
                            THEN "PollComplete(false)" ELSE "PollNext"]
            /\ result' = "Running"
            /\ UNCHANGED <<writer, yielded, hist>>
       ELSE \E r \in PollAnswers :
            /\ Can(r, hist)
            /\ LET h1 == Count(hist, "readys", r) IN
               CASE r = "Err" ->
                    /\ hist' = h1
                    /\ yielded' = Append(yielded, Err)
                    /\ result' = "Item"
                    /\ UNCHANGED <<writer, sent, assembled>>
                 [] r = "Ready" ->
                    \E s \in SendAnswers :
                    /\ Can(s, h1)
                    /\ hist' = Count(h1, "sends", s)
                    /\ sent' = Append(sent, assembled.buffered[1])
                    /\ IF s = "Err"
                       THEN /\ assembled' = [assembled EXCEPT !.buffered = None]
                            /\ yielded' = Append(yielded, Err)
                            /\ result' = "Item"
                            /\ writer' = writer
                       ELSE /\ writer' = start_send(writer, assembled.buffered[1])
                            /\ assembled' = [assembled EXCEPT
                                  !.buffered = None,
                                  !.empty = FALSE,
                                  !.state =
                                     IF Some(Ret(assembled.buffered[1])) \in f
                                     THEN "PollComplete(false)"
                                     ELSE "PollNext"]
                            /\ yielded' = yielded
                            /\ result' = "Running"
                 [] r = "Pending" ->
                    \E fl \in PollAnswers :
                    /\ Can(fl, h1)
                    /\ hist' = Count(h1, "flushes", fl)
                    /\ UNCHANGED <<writer, sent, assembled>>
                    /\ CASE fl = "Err" ->
                            yielded' = Append(yielded, Err) /\ result' = "Item"
                         [] fl = "Ready" ->
                            yielded' = yielded /\ result' = "Running"
                         [] fl = "Pending" ->
                            yielded' = yielded /\ result' = "Pending"

\* The second half of the loop body, State::PollNext.
AssembledPollNext ==
    /\ result # "End"
    /\ UNCHANGED NotAssembled
    /\ assembled.buffered = None
    /\ assembled.state = "PollNext"
    /\ UNCHANGED <<f, writer, sent, yielded, fuse>>
    /\ \/ /\ Can("Pending", hist)
          /\ hist' = Count(hist, "polls", "Pending")
          /\ result' = "Pending"
          /\ UNCHANGED <<source, pulled, assembled>>
       \/ /\ Pull
          /\ hist' = Count(hist, "polls", "Ready")
          /\ assembled' = [assembled EXCEPT !.buffered = Some(Head(source))]
          /\ result' = "Running"
       \/ /\ source = <<>>
          /\ hist' = Count(hist, "polls", "Ready")
          /\ UNCHANGED <<source, pulled>>
          /\ IF assembled.empty
             THEN /\ assembled' = [assembled EXCEPT !.is_terminated = TRUE]
                  /\ result' = "End"
             ELSE /\ assembled' = [assembled EXCEPT
                                      !.state = "PollComplete(true)"]
                  /\ result' = "Running"

\* The second half of the loop body, State::PollComplete(last), with
\* Fuse::poll_complete.
AssembledPollComplete ==
    /\ result # "End"
    /\ UNCHANGED NotAssembled
    /\ assembled.buffered = None
    /\ assembled.state \in {"PollComplete(false)", "PollComplete(true)"}
    /\ UNCHANGED <<source, f, pulled, sent>>
    /\ IF fuse.is_terminated
       THEN \* Ready(Ok(None)): the inner writer is gone, end the stream
            /\ assembled' = [assembled EXCEPT !.is_terminated = TRUE]
            /\ result' = "End"
            /\ UNCHANGED <<writer, yielded, hist, fuse>>
       ELSE \E c \in PollAnswers :
            /\ Can(c, hist)
            /\ hist' = Count(hist, "completes", c)
            /\ CASE c = "Pending" ->
                    /\ result' = "Pending"
                    /\ UNCHANGED <<writer, yielded, assembled, fuse>>
                 [] c = "Err" ->
                    /\ yielded' = Append(yielded, Err)
                    /\ result' = "Item"
                    /\ UNCHANGED <<writer, assembled, fuse>>
                 [] c = "Ready" ->
                    /\ writer' = poll_complete(writer)
                    /\ fuse' = Fuse_completed(fuse, poll_complete(writer))
                    /\ yielded' = Append(yielded, Ok(writer.inner))
                    /\ assembled' =
                          IF assembled.state = "PollComplete(true)"
                          THEN [assembled EXCEPT !.state = "Terminated"]
                          ELSE [assembled EXCEPT !.empty = TRUE,
                                                 !.state = "PollNext"]
                    /\ result' = "Item"

\* The second half of the loop body, State::Terminated.
AssembledTerminated ==
    /\ result # "End"
    /\ UNCHANGED NotAssembled
    /\ assembled.buffered = None
    /\ assembled.state = "Terminated"
    /\ assembled' = [assembled EXCEPT !.is_terminated = TRUE]
    /\ result' = "End"
    /\ UNCHANGED <<source, f, writer, pulled, sent, yielded, hist, fuse>>

(***************************************************************************)
(* TrySend                                                                 *)
(***************************************************************************)
TrySendNew == [stream |-> "Some", buffered |-> None, is_terminated |-> FALSE]

\* Faulty variant: a writer that is not ready is written to.
ReadyBreaks_on_pending(r) == r \in {"Ready", "Pending"}

\* The inner loop breaks on Poll::Ready(Ok(())).
ReadyBreaks(r) == r = "Ready"

\* Faulty variant: a flush that is still pending ends the stream.
TrySend_flushed_on_pending(fl) == fl \in {"Ready", "Pending"}

\* ready!(poll_flush)? lets only Ready(Ok(())) through.
TrySend_flushed(fl) == fl = "Ready"

\* One iteration of the loops of TrySend::poll_next.  out is what the
\* iteration hands to the caller of poll_next: "Continue" (nothing yet, the
\* loop goes on), "Pending", "SomeOk" (Some(Ok(ret)) for the part that was
\* buffered), "SomeErr" or "None".
TrySend_poll_next(out) ==
    IF try_send.buffered # None
    THEN /\ UNCHANGED <<source, pulled>>
         /\ \E r \in PollAnswers :
            /\ Can(r, hist)
            /\ LET h1 == Count(hist, "readys", r) IN
               CASE ReadyBreaks(r) ->
                    \E s \in SendAnswers :
                    /\ Can(s, h1)
                    /\ hist' = Count(h1, "sends", s)
                    /\ sent' = Append(sent, try_send.buffered[1])
                    /\ try_send' = [try_send EXCEPT !.buffered = None]
                    /\ IF s = "Err"
                       THEN writer' = writer /\ out = "SomeErr"
                       ELSE /\ writer' = start_send(writer, try_send.buffered[1])
                            /\ out = "SomeOk"
                 [] r = "Err" ->
                    /\ hist' = h1
                    /\ out = "SomeErr"
                    /\ UNCHANGED <<writer, sent, try_send>>
                 [] r = "Pending" ->
                    \E fl \in PollAnswers :
                    /\ Can(fl, h1)
                    /\ hist' = Count(h1, "flushes", fl)
                    /\ out = CASE fl = "Err" -> "SomeErr"
                               [] fl = "Pending" -> "Pending"
                               [] fl = "Ready" -> "Continue"
                    /\ UNCHANGED <<writer, sent, try_send>>
    ELSE IF try_send.stream = "None"
    THEN /\ UNCHANGED <<source, pulled, writer, sent>>
         /\ \E fl \in PollAnswers :
            /\ Can(fl, hist)
            /\ hist' = Count(hist, "flushes", fl)
            /\ CASE TrySend_flushed(fl) ->
                    /\ out = "None"
                    /\ try_send' = [try_send EXCEPT !.is_terminated = TRUE]
                 [] fl = "Err" -> out = "SomeErr" /\ try_send' = try_send
                 [] fl = "Pending" -> out = "Pending" /\ try_send' = try_send
    ELSE /\ UNCHANGED <<writer, sent>>
         /\ \/ /\ Can("Pending", hist)
               /\ hist' = Count(hist, "polls", "Pending")
               /\ out = "Pending"
               /\ UNCHANGED <<source, pulled, try_send>>
            \/ /\ Pull
               /\ hist' = Count(hist, "polls", "Ready")
               /\ try_send' = [try_send EXCEPT !.buffered = Some(Head(source))]
               /\ out = "Continue"
            \/ /\ source = <<>>
               /\ hist' = Count(hist, "polls", "Ready")
               /\ try_send' = [try_send EXCEPT !.stream = "None"]
               /\ out = "Continue"
               /\ UNCHANGED <<source, pulled>>

\* TrySend::poll_complete.  out is "Pending", "Err" or "Ok"; r, s, fl and c
\* are the answers of poll_ready, start_send, poll_flush and poll_complete.
TrySend_poll_complete(out) ==
    \E r \in PollAnswers \cup {"Skip"}, s \in SendAnswers \cup {"Skip"},
       fl \in PollAnswers \cup {"Skip"}, c \in PollAnswers \cup {"Skip"} :
    LET h1 == CountSkip(hist, "readys", r)
        h2 == CountSkip(h1, "sends", s)
        h3 == CountSkip(h2, "flushes", fl)
        w1 == IF s = "Ready"
              THEN start_send(writer, try_send.buffered[1]) ELSE writer
    IN  /\ (r = "Skip") = (try_send.buffered = None)
        /\ (s # "Skip") = (r = "Ready")
        /\ (fl # "Skip") = (r = "Skip" \/ s = "Ready")
        /\ (c # "Skip") = (fl = "Ready")
        /\ CanSkip(r, hist) /\ CanSkip(s, h1)
        /\ CanSkip(fl, h2) /\ CanSkip(c, h3)
        /\ hist' = CountSkip(h3, "completes", c)
        /\ sent' = IF s = "Skip" THEN sent
                   ELSE Append(sent, try_send.buffered[1])
        /\ try_send' = IF s = "Skip" THEN try_send
                       ELSE [try_send EXCEPT !.buffered = None]
        /\ writer' = IF c = "Ready" THEN poll_complete(w1) ELSE w1
        /\ out = IF c = "Ready" THEN "Ok"
                 ELSE IF "Err" \in {r, s, fl, c} THEN "Err"
                 ELSE "Pending"
        /\ UNCHANGED <<source, pulled>>

\* The output of a TrySend::poll_complete that answers Ready(Ok(output)).
TrySend_output ==
    IF try_send.buffered = None THEN writer.inner
    ELSE start_send(writer, try_send.buffered[1]).inner

(***************************************************************************)
(* WriteUntil                                                              *)
(***************************************************************************)
WriteUntilNew == [state |-> "PollNext", is_empty |-> TRUE]

is_last_complete(state) == state = "FinalPollComplete"

should_complete(state) == state = "PollComplete" \/ is_last_complete(state)

\* Faulty variant: a send does not mark the session as written to.
WriteUntil_sent_still_empty(wu, b) ==
    [wu EXCEPT !.state = IF b THEN "PollComplete" ELSE @]

\* poll_next on Some(Ok(ret)), b being f(ret).
WriteUntil_sent(wu, b) ==
    [wu EXCEPT !.state = IF b THEN "PollComplete" ELSE @,
               !.is_empty = FALSE]

\* Faulty variant: the source's end always asks for a last completion.
WriteUntil_exhausted_always_final(wu) ==
    [wu EXCEPT !.state = "FinalPollComplete"]

\* poll_next on None: nothing written since the last completion ends the
\* stream, anything written asks for the last completion.
WriteUntil_exhausted(wu) ==
    [wu EXCEPT !.state = IF wu.is_empty THEN "Terminated"
                         ELSE "FinalPollComplete"]

\* The head of poll_next: the last output was the final one.
WriteUntilTerminating ==
    /\ result # "End"
    /\ UNCHANGED NotWriteUntil
    /\ write_until.state = "Terminating"
    /\ write_until' = [write_until EXCEPT !.state = "Terminated"]
    /\ result' = "End"
    /\ UNCHANGED <<source, f, writer, pulled, sent, yielded, hist, try_send,
                   judged>>

\* The loop of poll_next when the state asks for a completion.
WriteUntilComplete ==
    /\ result # "End"
    /\ UNCHANGED NotWriteUntil
    /\ write_until.state # "Terminating"
    /\ should_complete(write_until.state)
    /\ UNCHANGED <<f, judged>>
    /\ \E out \in {"Pending", "Err", "Ok"} :
       /\ TrySend_poll_complete(out)
       /\ IF out = "Pending"
          THEN /\ result' = "Pending"
               /\ UNCHANGED <<yielded, write_until>>
          ELSE /\ write_until' = [write_until EXCEPT
                     !.state = IF is_last_complete(write_until.state)
                               THEN "Terminating" ELSE "PollNext",
                     !.is_empty = TRUE]
               /\ yielded' = Append(yielded,
                     IF out = "Ok" THEN Ok(TrySend_output) ELSE Err)
               /\ result' = "Item"

\* The loop of poll_next when the state asks for the next send.
WriteUntilPollNext ==
    /\ result # "End"
    /\ UNCHANGED NotWriteUntil
    /\ write_until.state # "Terminating"
    /\ ~should_complete(write_until.state)
    /\ f' = f
    /\ \E out \in {"Continue", "Pending", "SomeOk", "SomeErr", "None"} :
       /\ TrySend_poll_next(out)
       /\ CASE out = "Continue" ->
               /\ judged' = judged
               /\ result' = "Running"
               /\ UNCHANGED <<yielded, write_until>>
            [] out = "Pending" ->
               /\ judged' = judged
               /\ result' = "Pending"
               /\ UNCHANGED <<yielded, write_until>>
            [] out = "SomeOk" ->
               /\ judged' = Append(judged, Ret(try_send.buffered[1]))
               /\ write_until' =
                     WriteUntil_sent(write_until,
                                     Ret(try_send.buffered[1]) \in f)
               /\ result' = "Running"
               /\ yielded' = yielded
            [] out = "SomeErr" ->
               /\ judged' = judged
               /\ yielded' = Append(yielded, Err)
               /\ result' = "Item"
               /\ write_until' = write_until
            [] out = "None" ->
               /\ judged' = judged
               /\ yielded' = yielded
               /\ write_until' = WriteUntil_exhausted(write_until)
               /\ result' = IF write_until'.state = "Terminated"
                            THEN "End" ELSE "Running"

\* A caller polls the stream again after it has ended.
WriteUntilRepoll ==
    /\ result = "End"
    /\ hist.repolls < MaxRepoll
    /\ hist' = [hist EXCEPT !.repolls = @ + 1]
    /\ result' = "Repoll"
    /\ UNCHANGED <<NotWriteUntil, source, f, writer, pulled, sent, yielded,
                   try_send, write_until, judged>>

(***************************************************************************)
(* CompleteWhen                                                            *)
(***************************************************************************)
CompleteWhenNew == [should_complete |-> FALSE, is_terminated |-> FALSE]

\* The loop of poll_next when the closure asked for a completion.
CompleteWhenComplete ==
    /\ result # "End"
    /\ UNCHANGED NotCompleteWhen
    /\ complete_when.should_complete
    /\ f' = f
    /\ \E out \in {"Pending", "Err", "Ok"} :
       /\ TrySend_poll_complete(out)
       /\ IF out = "Pending"
          THEN /\ result' = "Pending"
               /\ UNCHANGED <<yielded, complete_when>>
          ELSE /\ complete_when' =
                     [complete_when EXCEPT !.should_complete = FALSE]
               /\ yielded' = Append(yielded,
                     IF out = "Ok" THEN Ok(TrySend_output) ELSE Err)
               /\ result' = "Item"

\* The loop of poll_next otherwise.
CompleteWhenPollNext ==
    /\ result # "End"
    /\ UNCHANGED NotCompleteWhen
    /\ ~complete_when.should_complete
    /\ f' = f
    /\ \E out \in {"Continue", "Pending", "SomeOk", "SomeErr", "None"} :
       /\ TrySend_poll_next(out)
       /\ CASE out = "Continue" ->
               /\ result' = "Running"
               /\ UNCHANGED <<yielded, complete_when>>
            [] out = "Pending" ->
               /\ result' = "Pending"
               /\ UNCHANGED <<yielded, complete_when>>
            [] out = "SomeOk" ->
               /\ complete_when' =
                     IF Ret(try_send.buffered[1]) \in f
                     THEN [complete_when EXCEPT !.should_complete = TRUE]
                     ELSE complete_when
               /\ result' = "Running"
               /\ yielded' = yielded
            [] out = "SomeErr" ->
               /\ yielded' = Append(yielded, Err)
               /\ result' = "Item"
               /\ complete_when' = complete_when
            [] out = "None" ->
               /\ yielded' = yielded
               /\ complete_when' =
                     [complete_when EXCEPT !.is_terminated = TRUE]
               /\ result' = "End"

(***************************************************************************)
(* Frozen                                                                  *)
(***************************************************************************)
FrozenNew ==
    [state |-> "Next", terminated |-> FALSE, buffered |-> None,
     is_empty |-> TRUE]

StreamWriter_is_empty(sw) == sw.is_empty /\ sw.buffered = None

\* State::Write with StreamWriter::write_part.
FrozenWrite ==
    /\ result # "End"
    /\ UNCHANGED NotFrozen
    /\ frozen.state = "Write"
    /\ UNCHANGED <<source, f, pulled>>
    /\ IF frozen.buffered = None
       THEN /\ frozen' = [frozen EXCEPT !.state = "Next"]
            /\ result' = "Running"
            /\ UNCHANGED <<writer, sent, yielded, hist>>
       ELSE \E r \in PollAnswers :
            /\ Can(r, hist)
            /\ LET h1 == Count(hist, "readys", r) IN
               CASE r = "Pending" ->
                    \E fl \in PollAnswers :
                    /\ Can(fl, h1)
                    /\ hist' = Count(h1, "flushes", fl)
                    /\ UNCHANGED <<writer, sent, frozen>>
                    /\ IF fl = "Err"
                       THEN yielded' = Append(yielded, Err) /\ result' = "Item"
                       ELSE yielded' = yielded /\ result' = "Pending"
                 [] r = "Err" ->
                    /\ hist' = h1
                    /\ yielded' = Append(yielded, Err)
                    /\ result' = "Item"
                    /\ UNCHANGED <<writer, sent, frozen>>
                 [] r = "Ready" ->
                    \E s \in SendAnswers :
                    /\ Can(s, h1)
                    /\ hist' = Count(h1, "sends", s)
                    /\ sent' = Append(sent, frozen.buffered[1])
                    /\ IF s = "Err"
                       THEN /\ frozen' = [frozen EXCEPT !.buffered = None,
                                                        !.is_empty = FALSE]
                            /\ yielded' = Append(yielded, Err)
                            /\ result' = "Item"
                            /\ writer' = writer
                       ELSE /\ writer' = start_send(writer, frozen.buffered[1])
                            /\ frozen' = [frozen EXCEPT
                                  !.buffered = None,
                                  !.is_empty = FALSE,
                                  !.state = IF Ret(frozen.buffered[1]) \in f
                                            THEN "Freeze" ELSE "Next"]
                            /\ yielded' = yielded
                            /\ result' = "Running"

\* State::Next.
FrozenNext ==
    /\ result # "End"
    /\ UNCHANGED NotFrozen
    /\ frozen.state = "Next"
    /\ UNCHANGED <<f, writer, sent, yielded>>
    /\ \/ /\ Can("Pending", hist)
          /\ hist' = Count(hist, "polls", "Pending")
          /\ result' = "Pending"
          /\ UNCHANGED <<source, pulled, frozen>>
       \/ /\ Pull
          /\ hist' = Count(hist, "polls", "Ready")
          /\ frozen' = [frozen EXCEPT !.buffered = Some(Head(source)),
                                      !.state = "Write"]
          /\ result' = "Running"
       \/ /\ source = <<>>
          /\ hist' = Count(hist, "polls", "Ready")
          /\ UNCHANGED <<source, pulled>>
          /\ IF StreamWriter_is_empty(frozen)
             THEN /\ frozen' = [frozen EXCEPT !.terminated = TRUE]
                  /\ result' = "End"
             ELSE /\ frozen' = [frozen EXCEPT !.state = "Shutdown(true)"]
                  /\ result' = "Running"

\* StreamWriter::freeze as State::Freeze (next is "Write") and
\* State::Shutdown(false) (next is "Shutdown(true)") call it.
Frozen_freeze(next) ==
    \E fl \in PollAnswers, c \in PollAnswers \cup {"Skip"} :
    LET h1 == Count(hist, "flushes", fl) IN
    /\ (c # "Skip") = (fl = "Ready")
    /\ Can(fl, hist) /\ CanSkip(c, h1)
    /\ hist' = CountSkip(h1, "completes", c)
    /\ CASE "Pending" \in {fl, c} ->
            /\ result' = "Pending"
            /\ UNCHANGED <<writer, yielded, frozen>>
         [] fl = "Err" ->
            /\ yielded' = Append(yielded, Err)
            /\ frozen' = [frozen EXCEPT !.state = next]
            /\ result' = "Item"
            /\ writer' = writer
         [] c = "Err" ->
            /\ yielded' = Append(yielded, Err)
            /\ frozen' = [frozen EXCEPT !.is_empty = TRUE, !.state = next]
            /\ result' = "Item"
            /\ writer' = writer
         [] c = "Ready" ->
            /\ writer' = poll_complete(writer)
            /\ yielded' = Append(yielded, Ok(writer.inner))
            /\ frozen' = [frozen EXCEPT !.is_empty = TRUE, !.state = next]
            /\ result' = "Item"

\* State::Freeze.
FrozenFreeze ==
    /\ result # "End"
    /\ UNCHANGED NotFrozen
    /\ frozen.state = "Freeze"
    /\ UNCHANGED <<source, f, pulled, sent>>
    /\ Frozen_freeze("Write")

\* State::Shutdown(now).
FrozenShutdown ==
    /\ result # "End"
    /\ UNCHANGED NotFrozen
    /\ frozen.state \in {"Shutdown(false)", "Shutdown(true)"}
    /\ UNCHANGED <<source, f, pulled, sent>>
    /\ IF frozen.state = "Shutdown(true)"
       THEN /\ frozen' = [frozen EXCEPT !.terminated = TRUE]
            /\ result' = "End"
            /\ UNCHANGED <<writer, yielded, hist>>
       ELSE Frozen_freeze("Shutdown(true)")

(***************************************************************************)
(* CollectComplete                                                         *)
(***************************************************************************)
CollectCompleteNew(src) ==
    [stream |-> "Some", source |-> src, buffered |-> None,
     is_terminated |-> FALSE, writer |-> TestWriter(None),
     pulled |-> <<>>, sent |-> <<>>, output |-> None, result |-> "Start"]

\* The future is not polled again once it has resolved.
CollectResolved == collect.result \in {"Ok", "Err"}

\* Faulty variant: the buffered part stays in the buffer after it was sent.
Collect_take_keeps(c) == c

\* buffered.take()
Collect_take(c) == [c EXCEPT !.buffered = None]

\* The loop body when a part is buffered: one round of the inner loop and,
\* when the writer is ready, start_send.
CollectSend ==
    /\ ~CollectResolved
    /\ UNCHANGED NotCollect
    /\ collect.buffered # None
    /\ \E r \in PollAnswers :
       /\ Can(r, hist)
       /\ LET h1 == Count(hist, "readys", r) IN
          CASE r = "Ready" ->
               \E s \in SendAnswers :
               /\ Can(s, h1)
               /\ hist' = Count(h1, "sends", s)
               /\ collect' =
                    [Collect_take(collect) EXCEPT
                       !.sent = Append(@, collect.buffered[1]),
                       !.writer = IF s = "Err" THEN @
                                  ELSE start_send(@, collect.buffered[1]),
                       !.result = IF s = "Err" THEN "Err" ELSE "Running"]
            [] r = "Err" ->
               /\ hist' = h1
               /\ collect' = [collect EXCEPT !.result = "Err"]
            [] r = "Pending" ->
               \E fl \in PollAnswers :
               /\ Can(fl, h1)
               /\ hist' = Count(h1, "flushes", fl)
               /\ collect' = [collect EXCEPT
                     !.result = CASE fl = "Err" -> "Err"
                                  [] fl = "Pending" -> "Pending"
                                  [] fl = "Ready" -> "Running"]

\* The loop body when the stream is gone: flush, complete and resolve.
CollectFinish ==
    /\ ~CollectResolved
    /\ UNCHANGED NotCollect
    /\ collect.buffered = None
    /\ collect.stream = "None"
    /\ \E fl \in PollAnswers, c \in PollAnswers \cup {"Skip"} :
       LET h1 == Count(hist, "flushes", fl) IN
       /\ (c # "Skip") = (fl = "Ready")
       /\ Can(fl, hist) /\ CanSkip(c, h1)
       /\ hist' = CountSkip(h1, "completes", c)
       /\ CASE "Pending" \in {fl, c} ->
               collect' = [collect EXCEPT !.result = "Pending"]
            [] fl = "Err" ->
               collect' = [collect EXCEPT !.result = "Err"]
            [] c = "Err" ->
               collect' = [collect EXCEPT !.result = "Err",
                                          !.is_terminated = TRUE]
            [] c = "Ready" ->
               collect' = [collect EXCEPT
                     !.writer = poll_complete(@),
                     !.output = Some(collect.writer.inner),
                     !.is_terminated = TRUE,
                     !.result = "Ok"]

\* The loop body when the stream is there: poll it.
CollectPoll ==
    /\ ~CollectResolved
    /\ UNCHANGED NotCollect
    /\ collect.buffered = None
    /\ collect.stream = "Some"
    /\ \/ /\ Can("Pending", hist)
          /\ hist' = Count(hist, "polls", "Pending")
          /\ collect' = [collect EXCEPT !.result = "Pending"]
       \/ /\ collect.source # <<>>
          /\ hist' = Count(hist, "polls", "Ready")
          /\ collect' = [collect EXCEPT
                !.source = Tail(@),
                !.pulled = Append(@, Head(collect.source)),
                !.buffered = Some(Head(collect.source)),
                !.result = "Running"]
       \/ /\ collect.source = <<>>
          /\ hist' = Count(hist, "polls", "Ready")
          /\ collect' = [collect EXCEPT !.stream = "None",
                                        !.result = "Running"]

(***************************************************************************)
(* TrySend as a stream of its own                                          *)
(***************************************************************************)
\* Stream::poll_next of TrySend, one iteration of its loop.
TrySendPollNext ==
    /\ result # "End"
    /\ UNCHANGED <<NotWriteUntil, write_until, judged, f>>
    /\ \E out \in {"Continue", "Pending", "SomeOk", "SomeErr", "None"} :
       /\ TrySend_poll_next(out)
       /\ yielded' =
             CASE out = "SomeOk" ->
                  Append(yielded, Ok(Ret(try_send.buffered[1])))
               [] out = "SomeErr" -> Append(yielded, Err)
               [] OTHER -> yielded
       /\ result' = CASE out = "Continue" -> "Running"
                      [] out = "Pending" -> "Pending"
                      [] out = "None" -> "End"
                      [] OTHER -> "Item"

\* A caller of TrySend::poll_complete, between two polls of poll_next.
TrySendPollComplete ==
    /\ result \in {"Start", "Pending", "Item"}
    /\ hist.completes < MaxAsk
    /\ UNCHANGED <<NotWriteUntil, write_until, judged, f, yielded>>
    /\ \E out \in {"Pending", "Err", "Ok"} :
       /\ TrySend_poll_complete(out)
       /\ result' = IF out = "Pending" THEN "Pending" ELSE "Item"

(***************************************************************************)
(* WriteComplete                                                           *)
(***************************************************************************)
WriteCompleteNew ==
    [stream |-> "Some", buffered |-> None, is_terminated |-> FALSE]

\* The future is not polled again once it has resolved.
WriteCompleteResolved == result \in {"Ok", "Err"}

\* The loop body when a part is buffered.
WriteCompleteSend ==
    /\ ~WriteCompleteResolved
    /\ UNCHANGED <<First, collect_completed, send_part>>
    /\ write_complete.buffered # None
    /\ UNCHANGED <<source, pulled, f>>
    /\ \E r \in PollAnswers :
       /\ Can(r, hist)
       /\ LET h1 == Count(hist, "readys", r) IN
          CASE r = "Ready" ->
               \E s \in SendAnswers :
               /\ Can(s, h1)
               /\ hist' = Count(h1, "sends", s)
               /\ sent' = Append(sent, write_complete.buffered[1])
               /\ write_complete' = [write_complete EXCEPT !.buffered = None]
               /\ IF s = "Err"
                  THEN /\ writer' = writer
                       /\ yielded' = Append(yielded, Err)
                       /\ result' = "Err"
                  ELSE /\ writer' =
                             start_send(writer, write_complete.buffered[1])
                       /\ yielded' = yielded
                       /\ result' = "Running"
            [] r = "Err" ->
               /\ hist' = h1
               /\ yielded' = Append(yielded, Err)
               /\ result' = "Err"
               /\ UNCHANGED <<writer, sent, write_complete>>
            [] r = "Pending" ->
               \E fl \in PollAnswers :
               /\ Can(fl, h1)
               /\ hist' = Count(h1, "flushes", fl)
               /\ UNCHANGED <<writer, sent, write_complete>>
               /\ IF fl = "Err"
                  THEN yielded' = Append(yielded, Err) /\ result' = "Err"
                  ELSE yielded' = yielded /\ result' = "Pending"

\* let output = ready!(poll_complete); is_terminated = true; return output
\* on the WriteComplete wc, after the calls counted in h.
WriteComplete_complete(h, wc) ==
    \E c \in PollAnswers :
    /\ Can(c, h)
    /\ hist' = Count(h, "completes", c)
    /\ CASE c = "Pending" ->
            /\ result' = "Pending"
            /\ write_complete' = wc
            /\ UNCHANGED <<writer, yielded>>
         [] c = "Err" ->
            /\ result' = "Err"
            /\ write_complete' = [wc EXCEPT !.is_terminated = TRUE]
            /\ writer' = writer
            /\ yielded' = Append(yielded, Err)
         [] c = "Ready" ->
            /\ result' = "Ok"
            /\ write_complete' = [wc EXCEPT !.is_terminated = TRUE]
            /\ writer' = poll_complete(writer)
            /\ yielded' = Append(yielded, Ok(writer.inner))

\* The loop body when nothing is buffered and the stream is gone.
WriteCompleteFinish ==
    /\ ~WriteCompleteResolved
    /\ UNCHANGED <<First, collect_completed, send_part>>
    /\ write_complete.buffered = None
    /\ write_complete.stream = "None"
    /\ UNCHANGED <<source, pulled, sent, f>>
    /\ WriteComplete_complete(hist, write_complete)

\* The loop body when nothing is buffered and the stream is there.
WriteCompletePoll ==
    /\ ~WriteCompleteResolved
    /\ UNCHANGED <<First, collect_completed, send_part>>
    /\ write_complete.buffered = None
    /\ write_complete.stream = "Some"
    /\ UNCHANGED <<sent, f>>
    /\ \/ /\ Can("Pending", hist)
          /\ UNCHANGED <<source, pulled, writer, write_complete>>
          /\ \E fl \in PollAnswers :
             LET h1 == Count(hist, "polls", "Pending") IN
             /\ Can(fl, h1)
             /\ hist' = Count(h1, "flushes", fl)
             /\ IF fl = "Err"
                THEN yielded' = Append(yielded, Err) /\ result' = "Err"
                ELSE yielded' = yielded /\ result' = "Pending"
       \/ /\ Pull
          /\ hist' = Count(hist, "polls", "Ready")
          /\ write_complete' =
                [write_complete EXCEPT !.buffered = Some(Head(source))]
          /\ result' = "Running"
          /\ UNCHANGED <<writer, yielded>>
       \/ /\ source = <<>>
          /\ UNCHANGED <<source, pulled>>
          /\ \E fl \in PollAnswers :
             LET h1 == Count(hist, "polls", "Ready")
                 h2 == Count(h1, "flushes", fl)
                 wc == [write_complete EXCEPT !.stream = "None"]
             IN  /\ Can(fl, h1)
                 /\ CASE fl = "Pending" ->
                         /\ hist' = h2
                         /\ result' = "Pending"
                         /\ write_complete' = wc
                         /\ UNCHANGED <<writer, yielded>>
                      [] fl = "Ready" -> WriteComplete_complete(h2, wc)
                      [] fl = "Err" ->
                         /\ hist' = h2
                         /\ result' = "Err"
                         /\ write_complete' =
                               [wc EXCEPT !.is_terminated = TRUE]
                         /\ writer' = writer
                         /\ yielded' = Append(yielded, Err)

(***************************************************************************)
(* CollectCompleted                                                        *)
(***************************************************************************)
\* The items of a stream of Result<Part, Wr::Error>.
ItemOk(part) == [ok |-> TRUE, part |-> part]
ItemErr == [ok |-> FALSE, part |-> 0]

\* The streams of at most MaxLen Results, the Ok ones numbered by position.
ResultSources ==
    UNION {{[i \in 1..n |-> IF i \in E THEN ItemErr ELSE ItemOk(i)] :
               E \in SUBSET (1..n)} : n \in 0..MaxLen}

\* The parts of the Ok items of a sequence of Results.
OkParts(items) ==
    LET oks == SelectSeq(items, LAMBDA it : it.ok)
    IN  [i \in 1..Len(oks) |-> oks[i].part]

\* done is the flag of the Fuse around the stream.
CollectCompletedNew == [writer |-> "Some", done |-> FALSE, buffered |-> None]

\* The future is not polled again once it has resolved.
CollectCompletedResolved == result \in {"Ok", "Err"}

\* Faulty variant: an Err item of the stream is skipped.
CollectCompleted_item_skipped(it) == "Running"

\* stream.poll_next(cx)? on Ready(Some(it)): an Err item resolves the
\* future, an Ok item is buffered and the loop goes on.
CollectCompleted_item(it) == IF it.ok THEN "Running" ELSE "Err"

\* The loop body when a part is buffered.
CollectCompletedSend ==
    /\ ~CollectCompletedResolved
    /\ UNCHANGED <<First, write_complete, send_part>>
    /\ collect_completed.buffered # None
    /\ UNCHANGED <<source, pulled, f>>
    /\ \E r \in PollAnswers :
       /\ Can(r, hist)
       /\ LET h1 == Count(hist, "readys", r) IN
          CASE r = "Ready" ->
               \E s \in SendAnswers :
               /\ Can(s, h1)
               /\ hist' = Count(h1, "sends", s)
               /\ sent' = Append(sent, collect_completed.buffered[1])
               /\ collect_completed' =
                     [collect_completed EXCEPT !.buffered = None]
               /\ IF s = "Err"
                  THEN /\ writer' = writer
                       /\ yielded' = Append(yielded, Err)
                       /\ result' = "Err"
                  ELSE /\ writer' =
                             start_send(writer, collect_completed.buffered[1])
                       /\ yielded' = yielded
                       /\ result' = "Running"
            [] r = "Err" ->
               /\ hist' = h1
               /\ yielded' = Append(yielded, Err)
               /\ result' = "Err"
               /\ UNCHANGED <<writer, sent, collect_completed>>
            [] r = "Pending" ->
               /\ hist' = h1
               /\ result' = "Pending"
               /\ UNCHANGED <<writer, sent, yielded, collect_completed>>

\* The loop body when nothing is buffered: poll the fused stream.
CollectCompletedPoll ==
    /\ ~CollectCompletedResolved
    /\ UNCHANGED <<First, write_complete, send_part>>
    /\ collect_completed.buffered = None
    /\ UNCHANGED <<sent, f>>
    /\ \/ /\ ~collect_completed.done
          /\ Can("Pending", hist)
          /\ UNCHANGED <<source, pulled, writer, collect_completed>>
          /\ \E fl \in PollAnswers :
             LET h1 == Count(hist, "polls", "Pending") IN
             /\ Can(fl, h1)
             /\ hist' = Count(h1, "flushes", fl)
             /\ IF fl = "Err"
                THEN yielded' = Append(yielded, Err) /\ result' = "Err"
                ELSE yielded' = yielded /\ result' = "Pending"
       \/ /\ ~collect_completed.done
          /\ Pull
          /\ hist' = Count(hist, "polls", "Ready")
          /\ collect_completed' =
                [collect_completed EXCEPT
                   !.buffered = IF Head(source).ok
                                THEN Some(Head(source).part) ELSE None]
          /\ result' = CollectCompleted_item(Head(source))
          /\ yielded' = IF Head(source).ok THEN yielded
                        ELSE Append(yielded, Err)
          /\ writer' = writer
       \/ /\ collect_completed.done \/ source = <<>>
          /\ UNCHANGED <<source, pulled>>
          /\ \E c \in PollAnswers :
             LET h1 == IF collect_completed.done THEN hist
                       ELSE Count(hist, "polls", "Ready")
                 cc == [collect_completed EXCEPT !.done = TRUE]
             IN  /\ Can(c, h1)
                 /\ hist' = Count(h1, "completes", c)
                 /\ CASE c = "Pending" ->
                         /\ result' = "Pending"
                         /\ collect_completed' = cc
                         /\ UNCHANGED <<writer, yielded>>
                      [] c = "Err" ->
                         /\ result' = "Err"
                         /\ collect_completed' = cc
                         /\ writer' = writer
                         /\ yielded' = Append(yielded, Err)
                      [] c = "Ready" ->
                         /\ result' = "Ok"
                         /\ collect_completed' = [cc EXCEPT !.writer = "None"]
                         /\ writer' = poll_complete(writer)
                         /\ yielded' = Append(yielded, Ok(writer.inner))

(***************************************************************************)
(* SendPart and its Feed                                                   *)
(***************************************************************************)
\* SendPart::new over Feed::new; part remembers what the future was made for.
SendPartNew(part) == [buffered |-> Some(part), output |-> None, part |-> part]

\* No send_part future has been made yet.
SendPartNone == [buffered |-> None, output |-> None, part |-> 0]

\* Faulty variant: the part stays in the Feed after it was sent.
Feed_take_keeps(sp) == sp

\* Feed::poll: buffered.take()
Feed_take(sp) == [sp EXCEPT !.buffered = None]

\* writer.send_part(part) for the next part of the caller, once the
\* previous future has resolved.
SendPartCall ==
    /\ result \in {"Start", "Ok", "Err"}
    /\ UNCHANGED <<First, write_complete, collect_completed>>
    /\ Pull
    /\ send_part' = SendPartNew(Head(source))
    /\ result' = "Created"
    /\ UNCHANGED <<f, writer, sent, yielded, hist>>

\* SendPart::poll.  r, s and fl are the answers of poll_ready, start_send
\* and poll_flush, "Skip" for a call that is not made.
SendPartPoll ==
    /\ result \in {"Created", "Pending"}
    /\ UNCHANGED <<First, write_complete, collect_completed>>
    /\ UNCHANGED <<source, pulled, f>>
    /\ \E r \in PollAnswers \cup {"Skip"}, s \in SendAnswers \cup {"Skip"},
          fl \in PollAnswers \cup {"Skip"} :
       LET h1 == CountSkip(hist, "readys", r)
           h2 == CountSkip(h1, "sends", s)
           sp1 == IF r = "Ready" THEN Feed_take(send_part) ELSE send_part
           sp2 == IF s = "Ready"
                  THEN [sp1 EXCEPT !.output = Some(Ret(send_part.buffered[1]))]
                  ELSE sp1
       IN  /\ (r = "Skip") = (send_part.buffered = None)
           /\ (s # "Skip") = (r = "Ready")
           /\ (fl # "Skip") = (r = "Skip" \/ s = "Ready")
           /\ CanSkip(r, hist) /\ CanSkip(s, h1) /\ CanSkip(fl, h2)
           /\ hist' = CountSkip(h2, "flushes", fl)
           /\ sent' = IF s = "Skip" THEN sent
                      ELSE Append(sent, send_part.buffered[1])
           /\ writer' = IF s = "Ready"
                        THEN start_send(writer, send_part.buffered[1])
                        ELSE writer
           /\ send_part' = IF fl = "Ready"
                           THEN [sp2 EXCEPT !.output = None] ELSE sp2
           /\ yielded' = IF fl = "Ready" THEN Append(yielded, Ok(sp2.output[1]))
                         ELSE IF "Err" \in {r, s, fl}
                         THEN Append(yielded, Err)
                         ELSE yielded
           /\ result' = IF fl = "Ready" THEN "Ok"
                        ELSE IF "Err" \in {r, s, fl} THEN "Err"
                        ELSE "Pending"

(***************************************************************************)
(* The caller of a writer adapter                                          *)
(***************************************************************************)
\* calls counts the polls made; granted says that the last poll_ready
\* answered Ready(Ok) and no start_send was issued since; op is the last
\* call made and ret the value of the last Ok it was handed, if it looked;
\* flushed says that a poll_flush answered Ready(Ok) and no start_send was
\* issued since.
CallerNew == [calls |-> 0, granted |-> FALSE, op |-> "none", ret |-> None,
              flushed |-> FALSE]

\* The caller after the call op that answered a.
Called(c, op, a) ==
    [c EXCEPT !.calls = @ + 1,
              !.granted = IF op = "poll_ready" THEN a = "Ready" ELSE @,
              !.flushed = IF op = "poll_flush" /\ a = "Ready" THEN TRUE ELSE @,
              !.op = op]

\* The caller c is handed the value v.
Handed(c, v) == [c EXCEPT !.ret = Some(v)]

\* The caller after a start_send.
Sending(c) ==
    [c EXCEPT !.granted = FALSE, !.flushed = FALSE, !.op = "start_send"]

(***************************************************************************)
(* Buffered                                                                *)
(***************************************************************************)
Capacities == 0..MaxCapacity

BufferedNew(capacity) == [capacity |-> capacity, buf |-> <<>>]

\* What try_empty_buffer works on: the buffer, the inner writer and the
\* histories of the calls on it.
Buffered_state == [buf |-> buffered.buf, writer |-> writer,
                   hist |-> hist, sent |-> sent]

RECURSIVE Buffered_drain(_)
\* The while loop of try_empty_buffer, entered with the inner writer ready:
\* the outcomes it can have, each with what try_empty_buffer returns.
Buffered_drain(st) ==
    IF st.buf = <<>> THEN {[st |-> st, out |-> "Ready"]}
    ELSE UNION {
        LET h1 == Count(st.hist, "sends", s)
            st1 == [buf |-> Tail(st.buf),
                    writer |-> IF s = "Ready"
                               THEN start_send(st.writer, Head(st.buf))
                               ELSE st.writer,
                    hist |-> h1,
                    sent |-> Append(st.sent, Head(st.buf))]
        IN  IF s = "Err" THEN {[st |-> st1, out |-> "Err"]}
            ELSE IF st1.buf = <<>> THEN {[st |-> st1, out |-> "Ready"]}
            ELSE UNION {
                LET st2 == [st1 EXCEPT !.hist = Count(h1, "readys", r)]
                IN  IF r = "Ready" THEN Buffered_drain(st2)
                    ELSE {[st |-> st2, out |-> r]}
                : r \in {a \in PollAnswers : Can(a, h1)}}
        : s \in {a \in SendAnswers : Can(a, st.hist)}}

\* Faulty variant: the queue is left as it is.
Buffered_try_empty_buffer_skips(st) == {[st |-> st, out |-> "Ready"]}

\* try_empty_buffer: poll_ready on the inner writer, then the loop.
Buffered_try_empty_buffer(st) ==
    UNION {
        LET st1 == [st EXCEPT !.hist = Count(st.hist, "readys", r)]
        IN  IF r = "Ready" THEN Buffered_drain(st1)
            ELSE {[st |-> st1, out |-> r]}
        : r \in {a \in PollAnswers : Can(a, st.hist)}}

\* Faulty variant: a buffer at its capacity still takes a part.
Buffered_is_full_above(b) == Len(b.buf) > b.capacity

\* poll_ready: self.buf.len() >= self.capacity
Buffered_is_full(b) == Len(b.buf) >= b.capacity

\* The outcome o of try_empty_buffer becomes the state.
Buffered_becomes(o) ==
    /\ buffered' = [buffered EXCEPT !.buf = o.st.buf]
    /\ writer' = o.st.writer
    /\ sent' = o.st.sent

BufferedPollReady ==
    /\ caller.calls < MaxCalls
    /\ UNCHANGED <<Drivers, NotBuffered, source, pulled, f, yielded>>
    /\ IF buffered.capacity = 0
       THEN \E r \in PollAnswers :
            /\ Can(r, hist)
            /\ hist' = Count(hist, "readys", r)
            /\ result' = r
            /\ caller' = Called(caller, "poll_ready", r)
            /\ UNCHANGED <<buffered, writer, sent>>
       ELSE \E o \in Buffered_try_empty_buffer(Buffered_state) :
            /\ Buffered_becomes(o)
            /\ hist' = o.st.hist
            /\ result' = IF o.out = "Err" THEN "Err"
                         ELSE IF Buffered_is_full(buffered') THEN "Pending"
                         ELSE "Ready"
            /\ caller' = Called(caller, "poll_ready", result')

\* start_send by a caller that holds a Ready(Ok) of poll_ready.
BufferedStartSend ==
    /\ caller.granted
    /\ UNCHANGED <<Drivers, NotBuffered, f, yielded>>
    /\ Pull
    /\ caller' = Sending(caller)
    /\ IF buffered.capacity = 0
       THEN \E s \in SendAnswers :
            /\ Can(s, hist)
            /\ hist' = Count(hist, "sends", s)
            /\ sent' = Append(sent, Head(source))
            /\ writer' = IF s = "Ready" THEN start_send(writer, Head(source))
                         ELSE writer
            /\ result' = s
            /\ buffered' = buffered
       ELSE /\ buffered' = [buffered EXCEPT !.buf = Append(@, Head(source))]
            /\ result' = "Ready"
            /\ UNCHANGED <<writer, sent, hist>>

BufferedPollFlush ==
    /\ caller.calls < MaxCalls
    /\ UNCHANGED <<Drivers, NotBuffered, source, pulled, f, yielded>>
    /\ \E o \in Buffered_try_empty_buffer(Buffered_state) :
       /\ Buffered_becomes(o)
       /\ IF o.out = "Ready"
          THEN \E fl \in PollAnswers :
               /\ Can(fl, o.st.hist)
               /\ hist' = Count(o.st.hist, "flushes", fl)
               /\ result' = fl
          ELSE hist' = o.st.hist /\ result' = o.out
       /\ caller' = Called(caller, "poll_flush", result')

BufferedPollComplete ==
    /\ caller.calls < MaxCalls
    /\ UNCHANGED <<Drivers, NotBuffered, source, pulled, f>>
    /\ \E o \in Buffered_try_empty_buffer(Buffered_state) :
       /\ buffered' = [buffered EXCEPT !.buf = o.st.buf]
       /\ sent' = o.st.sent
       /\ IF o.out = "Ready"
          THEN \E c \in PollAnswers :
               /\ Can(c, o.st.hist)
               /\ hist' = Count(o.st.hist, "completes", c)
               /\ result' = c
               /\ writer' = IF c = "Ready" THEN poll_complete(o.st.writer)
                            ELSE o.st.writer
               /\ yielded' = IF c = "Ready"
                             THEN Append(yielded, Ok(o.st.writer.inner))
                             ELSE yielded
          ELSE /\ hist' = o.st.hist
               /\ result' = o.out
               /\ writer' = o.st.writer
               /\ yielded' = yielded
       /\ caller' = Called(caller, "poll_complete", result')

(***************************************************************************)
(* Assemble: the future that drives a writer over a stream to completion   *)
(***************************************************************************)
AssembleNew == [stream |-> "Some", buffered |-> None, is_terminated |-> FALSE]

\* The future is not polled again once it has resolved.
AssembleResolved == result \in {"Ok", "Err"}

(***************************************************************************)
(* Fuse under a caller of its own                                          *)
(***************************************************************************)
FusePollReady ==
    /\ caller.calls < MaxCalls
    /\ UNCHANGED <<Drivers, NotFuse, source, pulled, f, yielded>>
    /\ UNCHANGED <<fuse, writer, sent>>
    /\ IF fuse.is_terminated
       THEN hist' = hist /\ result' = "Ready"
       ELSE \E r \in PollAnswers :
            /\ Can(r, hist)
            /\ hist' = Count(hist, "readys", r)
            /\ result' = r
    /\ caller' = Called(caller, "poll_ready", result')

FuseStartSend ==
    /\ caller.granted
    /\ UNCHANGED <<Drivers, NotFuse, f, yielded, fuse>>
    /\ Pull
    /\ IF fuse.is_terminated
       THEN /\ result' = "Ready"
            /\ caller' = Handed(Sending(caller), None)
            /\ UNCHANGED <<hist, writer, sent>>
       ELSE \E s \in SendAnswers :
            /\ Can(s, hist)
            /\ hist' = Count(hist, "sends", s)
            /\ sent' = Append(sent, Head(source))
            /\ result' = s
            /\ IF s = "Ready"
               THEN /\ writer' = start_send(writer, Head(source))
                    /\ caller' =
                          Handed(Sending(caller), Some(Ret(Head(source))))
               ELSE /\ writer' = writer
                    /\ caller' = Sending(caller)

FusePollFlush ==
    /\ caller.calls < MaxCalls
    /\ UNCHANGED <<Drivers, NotFuse, source, pulled, f, yielded>>
    /\ UNCHANGED <<fuse, writer, sent>>
    /\ IF fuse.is_terminated
       THEN hist' = hist /\ result' = "Ready"
       ELSE \E fl \in PollAnswers :
            /\ Can(fl, hist)
            /\ hist' = Count(hist, "flushes", fl)
            /\ result' = fl
    /\ caller' = Called(caller, "poll_flush", result')

FusePollComplete ==
    /\ caller.calls < MaxCalls
    /\ UNCHANGED <<Drivers, NotFuse, source, pulled, f, yielded, sent>>
    /\ IF fuse.is_terminated
       THEN /\ result' = "Ready"
            /\ caller' = Handed(Called(caller, "poll_complete", "Ready"), None)
            /\ UNCHANGED <<hist, writer, fuse>>
       ELSE \E c \in PollAnswers :
            /\ Can(c, hist)
            /\ hist' = Count(hist, "completes", c)
            /\ result' = c
            /\ IF c = "Ready"
               THEN /\ writer' = poll_complete(writer)
                    /\ fuse' = Fuse_completed(fuse, writer')
                    /\ caller' = Handed(Called(caller, "poll_complete", c),
                                        Some(writer.inner))
               ELSE /\ UNCHANGED <<writer, fuse>>
                    /\ caller' = Called(caller, "poll_complete", c)

(***************************************************************************)
(* With: parts pass through a future before the inner writer gets them     *)
(***************************************************************************)
\* future holds the part whose mapping future is unresolved, buffered the
\* resolved part not yet sent.
WithNew == [future |-> None, buffered |-> None]

\* The closure of the adapter; the future it returns resolves to this part.
With_f(part) == part + 10

With_state == [future |-> with_writer.future,
               buffered |-> with_writer.buffered,
               writer |-> writer, hist |-> hist, sent |-> sent]

\* Faulty variant: the buffer slot keeps the part it has sent.
With_sent_kept(st, s) ==
    [st EXCEPT !.hist = Count(st.hist, "sends", s),
               !.sent = Append(@, Head(st.buffered)),
               !.writer = IF s = "Ready"
                          THEN start_send(@, Head(st.buffered)) ELSE @]

\* poll: the inner start_send(buffered.take()) answered s.
With_sent(st, s) ==
    [st EXCEPT !.buffered = None,
               !.hist = Count(st.hist, "sends", s),
               !.sent = Append(@, Head(st.buffered)),
               !.writer = IF s = "Ready"
                          THEN start_send(@, Head(st.buffered)) ELSE @]

\* poll, after the buffer slot: the mapping future, if there is one.
With_resolve(st) ==
    IF st.future = None THEN {[st |-> st, out |-> "Ready"]}
    ELSE {
        LET st1 == [st EXCEPT !.hist = Count(st.hist, "resolves", a)]
        IN  IF a = "Ready"
            THEN [st |-> [st1 EXCEPT !.buffered = Some(With_f(Head(st.future))),
                                     !.future = None],
                  out |-> "Ready"]
            ELSE [st |-> st1, out |-> a]
        : a \in {x \in PollAnswers : Can(x, st.hist)}}

RECURSIVE With_poll(_)
\* With::poll: the outcomes it can have, each with what it returns.
With_poll(st) ==
    IF st.buffered = None THEN With_resolve(st)
    ELSE UNION {
        LET st1 == [st EXCEPT !.hist = Count(st.hist, "readys", r)]
        IN  CASE r = "Err" -> {[st |-> st1, out |-> "Err"]}
              [] r = "Ready" ->
                 UNION {
                    LET st2 == With_sent(st1, s)
                    IN  IF s = "Err" THEN {[st |-> st2, out |-> "Err"]}
                        ELSE With_resolve(st2)
                    : s \in {x \in SendAnswers : Can(x, st1.hist)}}
              [] r = "Pending" ->
                 UNION {
                    LET st2 == [st1 EXCEPT
                                   !.hist = Count(st1.hist, "flushes", fl)]
                    IN  IF fl = "Ready" THEN With_poll(st2)
                        ELSE {[st |-> st2, out |-> fl]}
                    : fl \in {x \in PollAnswers : Can(x, st1.hist)}}
        : r \in {x \in PollAnswers : Can(x, st.hist)}}

\* The outcome o of poll becomes the state.
With_becomes(o) ==
    /\ with_writer' = [future |-> o.st.future, buffered |-> o.st.buffered]
    /\ sent' = o.st.sent

\* poll_ready: poll, then poll_ready on the inner writer.
WithPollReady ==
    /\ caller.calls < MaxCalls
    /\ UNCHANGED <<Drivers, NotWith, source, pulled, f, yielded>>
    /\ \E o \in With_poll(With_state) :
       /\ With_becomes(o)
       /\ writer' = o.st.writer
       /\ IF o.out = "Ready"
          THEN \E a \in PollAnswers :
               /\ Can(a, o.st.hist)
               /\ hist' = Count(o.st.hist, "readys", a)
               /\ result' = a
          ELSE /\ hist' = o.st.hist
               /\ result' = o.out
       /\ caller' = Called(caller, "poll_ready", result')

WithStartSend ==
    /\ caller.granted
    /\ UNCHANGED <<Drivers, NotWith, f, yielded, hist, writer, sent>>
    /\ Pull
    /\ with_writer' = [with_writer EXCEPT !.future = Some(Head(source))]
    /\ result' = "Ready"
    /\ caller' = Sending(caller)

\* poll_flush: poll, then poll_flush on the inner writer.
WithPollFlush ==
    /\ caller.calls < MaxCalls
    /\ UNCHANGED <<Drivers, NotWith, source, pulled, f, yielded>>
    /\ \E o \in With_poll(With_state) :
       /\ With_becomes(o)
       /\ writer' = o.st.writer
       /\ IF o.out = "Ready"
          THEN \E a \in PollAnswers :
               /\ Can(a, o.st.hist)
               /\ hist' = Count(o.st.hist, "flushes", a)
               /\ result' = a
          ELSE /\ hist' = o.st.hist
               /\ result' = o.out
       /\ caller' = Called(caller, "poll_flush", result')

WithPollComplete ==
    /\ caller.calls < MaxCalls
    /\ UNCHANGED <<Drivers, NotWith, source, pulled, f>>
    /\ \E o \in With_poll(With_state) :
       /\ With_becomes(o)
       /\ IF o.out = "Ready"
          THEN \E c \in PollAnswers :
               /\ Can(c, o.st.hist)
               /\ hist' = Count(o.st.hist, "completes", c)
               /\ result' = c
               /\ writer' = IF c = "Ready" THEN poll_complete(o.st.writer)
                            ELSE o.st.writer
               /\ yielded' = IF c = "Ready"
                             THEN Append(yielded, Ok(o.st.writer.inner))
                             ELSE yielded
          ELSE /\ hist' = o.st.hist
               /\ result' = o.out
               /\ writer' = o.st.writer
               /\ yielded' = yielded
       /\ caller' = Called(caller, "poll_complete", result')

(***************************************************************************)
(* OtherTestWriter of the tests: parts are vectors, the output a string    *)
(***************************************************************************)
DigitChars == <<"0", "1", "2", "3", "4", "5", "6", "7", "8", "9">>

RECURSIVE to_string(_)
\* usize::to_string: the decimal digits of n.
to_string(n) ==
    IF n < 10 THEN <<DigitChars[n + 1]>>
    ELSE to_string(n \div 10) \o <<DigitChars[(n % 10) + 1]>>

RECURSIVE Sum(_)
\* part.iter().sum()
Sum(part) == IF part = <<>> THEN 0 ELSE Head(part) + Sum(Tail(part))

RECURSIVE Join(_)
\* self.0.join(",")
Join(strings) ==
    IF strings = <<>> THEN <<>>
    ELSE IF Len(strings) = 1 THEN strings[1]
    ELSE strings[1] \o <<",">> \o Join(Tail(strings))

OtherTestWriter == <<>>

OtherTestWriter_start_send(w, part) == Append(w, to_string(Sum(part)))

(***************************************************************************)
(* Lift: a writer U whose output is a part of the inner writer             *)
(***************************************************************************)
\* inner is the OtherTestWriter, received the parts it was sent; the writer
\* U is the TestWriter.  The calls on the inner writer are counted apart
\* from the calls on U.
LiftNew == [buffered |-> None, inner |-> OtherTestWriter, received |-> <<>>]

Lift_state == [lift |-> lift, writer |-> writer, hist |-> hist, sent |-> sent]

\* The answers an operation may give now.
Answers(all, h) == {a \in all : Can(a, h)}

\* poll_send_inner, first half: without a buffered part, complete U.
Lift_complete_U(st) ==
    IF st.lift.buffered # None THEN {[st |-> st, out |-> "Ready"]}
    ELSE {
        LET st1 == [st EXCEPT !.hist = Count(st.hist, "completes", c)]
        IN  IF c = "Ready"
            THEN [st |-> [st1 EXCEPT !.lift.buffered = Some(st.writer.inner),
                                     !.writer = poll_complete(@)],
                  out |-> "Ready"]
            ELSE [st |-> st1, out |-> c]
        : c \in Answers(PollAnswers, st.hist)}

\* poll_send_inner: inner.start_send(buffered.take().unwrap()) answered s.
Lift_send(st, s) ==
    [st EXCEPT !.hist = Count(st.hist, "sends2", s),
               !.lift.buffered = None,
               !.lift.received = Append(@, Head(st.lift.buffered)),
               !.lift.inner = IF s = "Ready"
                              THEN OtherTestWriter_start_send(
                                       @, Head(st.lift.buffered))
                              ELSE @]

\* poll_send_inner: the outcomes it can have, each with what it returns.
Lift_poll_send_inner(st) ==
    UNION {
        IF o.out # "Ready" THEN {o}
        ELSE UNION {
            LET st1 == [o.st EXCEPT !.hist = Count(o.st.hist, "readys2", r)]
            IN  IF r # "Ready" THEN {[st |-> st1, out |-> r]}
                ELSE {[st |-> Lift_send(st1, s), out |-> s]
                      : s \in Answers(SendAnswers, st1.hist)}
            : r \in Answers(PollAnswers, o.st.hist)}
        : o \in Lift_complete_U(st)}

\* poll_ready: that of U.
Lift_poll_ready(st) ==
    {[st |-> [st EXCEPT !.hist = Count(st.hist, "readys", r)], out |-> r]
     : r \in Answers(PollAnswers, st.hist)}

\* start_send: that of U.
Lift_start_send(st, part) ==
    {[st |-> [st EXCEPT !.hist = Count(st.hist, "sends", s),
                        !.sent = Append(@, part),
                        !.writer = IF s = "Ready" THEN start_send(@, part)
                                   ELSE @],
      out |-> s]
     : s \in Answers(SendAnswers, st.hist)}

\* poll_flush: poll_send_inner, then poll_flush of the inner writer.
Lift_poll_flush(st) ==
    UNION {
        IF o.out # "Ready" THEN {o}
        ELSE {[st |-> [o.st EXCEPT !.hist = Count(o.st.hist, "flushes2", fl)],
               out |-> fl]
              : fl \in Answers(PollAnswers, o.st.hist)}
        : o \in Lift_poll_send_inner(st)}

\* poll_complete: poll_send_inner, then poll_complete of the inner writer,
\* which joins what it holds.
Lift_poll_complete(st) ==
    UNION {
        IF o.out # "Ready" THEN {o}
        ELSE {[st |-> [o.st EXCEPT !.hist = Count(o.st.hist, "completes2", c)],
               out |-> c]
              : c \in Answers(PollAnswers, o.st.hist)}
        : o \in Lift_poll_send_inner(st)}

\* The outcome o of a call becomes the state.
Lift_becomes(o) ==
    /\ lift' = o.st.lift
    /\ writer' = o.st.writer
    /\ hist' = o.st.hist
    /\ sent' = o.st.sent

LiftPollReady ==
    /\ caller.calls < MaxCalls
    /\ UNCHANGED <<Drivers, NotLift, assemble, source, pulled, f, yielded>>
    /\ \E o \in Lift_poll_ready(Lift_state) :
       /\ Lift_becomes(o)
       /\ result' = o.out
       /\ caller' = Called(caller, "poll_ready", o.out)

LiftStartSend ==
    /\ caller.granted
    /\ UNCHANGED <<Drivers, NotLift, assemble, f, yielded>>
    /\ Pull
    /\ \E o \in Lift_start_send(Lift_state, Head(source)) :
       /\ Lift_becomes(o)
       /\ result' = o.out
       /\ caller' = Sending(caller)

LiftPollFlush ==
    /\ caller.calls < MaxCalls
    /\ UNCHANGED <<Drivers, NotLift, assemble, source, pulled, f, yielded>>
    /\ \E o \in Lift_poll_flush(Lift_state) :
       /\ Lift_becomes(o)
       /\ result' = o.out
       /\ caller' = Called(caller, "poll_flush", o.out)

LiftPollComplete ==
    /\ caller.calls < MaxCalls
    /\ UNCHANGED <<Drivers, NotLift, assemble, source, pulled, f>>
    /\ \E o \in Lift_poll_complete(Lift_state) :
       /\ Lift_becomes(o)
       /\ result' = o.out
       /\ yielded' = IF o.out = "Ready"
                     THEN Append(yielded, Ok(Join(o.st.lift.inner)))
                     ELSE yielded
       /\ caller' = Called(caller, "poll_complete", o.out)

(***************************************************************************)
(* Assemble driving a Lift                                                 *)
(***************************************************************************)
\* The loop body when an item is buffered: poll_ready and start_send, or
\* poll_flush when the writer is not ready.
AssembleLiftSend ==
    /\ ~AssembleResolved
    /\ assemble.buffered # None
    /\ UNCHANGED <<Drivers, NotLift, caller, source, pulled, f, yielded>>
    /\ \E o \in Lift_poll_ready(Lift_state) :
       CASE o.out = "Err" ->
            /\ Lift_becomes(o)
            /\ result' = "Err"
            /\ assemble' = assemble
         [] o.out = "Ready" ->
            \E o2 \in Lift_start_send(o.st, Head(assemble.buffered)) :
            /\ Lift_becomes(o2)
            /\ result' = IF o2.out = "Err" THEN "Err" ELSE "Running"
            /\ assemble' = [assemble EXCEPT !.buffered = None]
         [] o.out = "Pending" ->
            \E o2 \in Lift_poll_flush(o.st) :
            /\ Lift_becomes(o2)
            /\ result' = CASE o2.out = "Err" -> "Err"
                           [] o2.out = "Pending" -> "Pending"
                           [] o2.out = "Ready" -> "Running"
            /\ assemble' = assemble

\* The loop body when the stream is there and no item is buffered.
AssembleLiftPollNext ==
    /\ ~AssembleResolved
    /\ assemble.buffered = None
    /\ assemble.stream = "Some"
    /\ UNCHANGED <<Drivers, NotLift, caller, f, yielded, lift, writer, sent>>
    /\ \/ /\ Can("Pending", hist)
          /\ hist' = Count(hist, "polls", "Pending")
          /\ result' = "Pending"
          /\ UNCHANGED <<assemble, source, pulled>>
       \/ /\ Pull
          /\ hist' = Count(hist, "polls", "Ready")
          /\ assemble' = [assemble EXCEPT !.buffered = Some(Head(source))]
          /\ result' = "Running"
       \/ /\ source = <<>>
          /\ hist' = Count(hist, "polls", "Ready")
          /\ assemble' = [assemble EXCEPT !.stream = "None"]
          /\ result' = "Running"
          /\ UNCHANGED <<source, pulled>>

\* The loop body when the stream is gone: poll_complete and resolve.
AssembleLiftPollComplete ==
    /\ ~AssembleResolved
    /\ assemble.buffered = None
    /\ assemble.stream = "None"
    /\ UNCHANGED <<Drivers, NotLift, caller, source, pulled, f>>
    /\ \E o \in Lift_poll_complete(Lift_state) :
       /\ Lift_becomes(o)
       /\ CASE o.out = "Pending" ->
               /\ result' = "Pending"
               /\ UNCHANGED <<assemble, yielded>>
            [] o.out = "Err" ->
               /\ result' = "Err"
               /\ assemble' = [assemble EXCEPT !.is_terminated = TRUE]
               /\ yielded' = yielded
            [] o.out = "Ready" ->
               /\ result' = "Ok"
               /\ assemble' = [assemble EXCEPT !.is_terminated = TRUE]
               /\ yielded' = Append(yielded, Ok(Join(o.st.lift.inner)))

(***************************************************************************)
(* FoldRet: the Rets of the inner writer are folded into an accumulator    *)
(***************************************************************************)
\* The id of the fold and its closure: the Rets are summed.
FoldRet_id == 0
FoldRet_f(acc, ret) == acc + ret

FoldRetNew == [acc |-> Some(FoldRet_id)]

\* A panic ends the run.
Panicked == result = "Panic"

FoldRetPollReady ==
    /\ ~Panicked
    /\ caller.calls < MaxCalls
    /\ UNCHANGED <<Drivers, NotFoldRet, source, pulled, f, yielded>>
    /\ UNCHANGED <<fold_ret, writer, sent>>
    /\ \E r \in PollAnswers :
       /\ Can(r, hist)
       /\ hist' = Count(hist, "readys", r)
       /\ result' = r
       /\ caller' = Called(caller, "poll_ready", r)

FoldRetStartSend ==
    /\ ~Panicked
    /\ caller.granted
    /\ UNCHANGED <<Drivers, NotFoldRet, f, yielded>>
    /\ Pull
    /\ caller' = Sending(caller)
    /\ \E s \in SendAnswers :
       /\ Can(s, hist)
       /\ hist' = Count(hist, "sends", s)
       /\ sent' = Append(sent, Head(source))
       /\ result' = s
       /\ IF s = "Ready"
          THEN /\ writer' = start_send(writer, Head(source))
               /\ fold_ret' =
                    [acc |-> IF fold_ret.acc = None THEN None
                             ELSE Some(FoldRet_f(Head(fold_ret.acc),
                                                 Ret(Head(source))))]
          ELSE UNCHANGED <<writer, fold_ret>>

FoldRetPollFlush ==
    /\ ~Panicked
    /\ caller.calls < MaxCalls
    /\ UNCHANGED <<Drivers, NotFoldRet, source, pulled, f, yielded>>
    /\ UNCHANGED <<fold_ret, writer, sent>>
    /\ \E fl \in PollAnswers :
       /\ Can(fl, hist)
       /\ hist' = Count(hist, "flushes", fl)
       /\ result' = fl
       /\ caller' = Called(caller, "poll_flush", fl)

FoldRetPollComplete ==
    /\ ~Panicked
    /\ caller.calls < MaxCalls
    /\ UNCHANGED <<Drivers, NotFoldRet, source, pulled, f, sent>>
    /\ \E c \in PollAnswers :
       /\ Can(c, hist)
       /\ hist' = Count(hist, "completes", c)
       /\ IF c # "Ready"
          THEN /\ result' = c
               /\ UNCHANGED <<writer, fold_ret, yielded>>
          ELSE /\ writer' = poll_complete(writer)
               /\ fold_ret' = [acc |-> None]
               /\ IF fold_ret.acc = None
                  THEN result' = "Panic" /\ yielded' = yielded
                  ELSE /\ result' = "Ready"
                       /\ yielded' = Append(yielded,
                             Ok(<<Head(fold_ret.acc), writer.inner>>))
       /\ caller' = Called(caller, "poll_complete", result')

(***************************************************************************)
(* Fanout: every part goes to two writers                                  *)
(***************************************************************************)
\* wr1 is the TestWriter of the model, wr2 a second one that doubles its
\* parts; sent2 are the parts passed to wr2.  got1 and got2 are the parts
\* wr1 and wr2 accepted, ready1 and ready2 the locals of the last
\* poll_ready, failed says that a start_send of the Fanout returned Err.
FanoutNew ==
    [wr2 |-> [TestWriter(None) EXCEPT !.multiplier = 2],
     wro1 |-> None, wro2 |-> None, sent2 |-> <<>>,
     got1 |-> <<>>, got2 |-> <<>>,
     ready1 |-> FALSE, ready2 |-> FALSE, failed |-> FALSE]

\* Faulty variant: one ready writer is enough.
Fanout_either(ready1, ready2) == ready1 \/ ready2

\* poll_ready, poll_flush: if ready1 && ready2
Fanout_both(ready1, ready2) == ready1 /\ ready2

FanoutPollReady ==
    /\ caller.calls < MaxCalls
    /\ UNCHANGED <<Drivers, NotFanout, source, pulled, f, yielded>>
    /\ UNCHANGED <<writer, sent>>
    /\ \E r1 \in PollAnswers, r2 \in PollAnswers \cup {"Skip"} :
       LET h1 == Count(hist, "readys", r1) IN
       /\ (r2 = "Skip") = (r1 = "Err")
       /\ Can(r1, hist) /\ CanSkip(r2, h1)
       /\ hist' = CountSkip(h1, "readys2", r2)
       /\ IF "Err" \in {r1, r2}
          THEN result' = "Err" /\ fanout' = fanout
          ELSE /\ fanout' = [fanout EXCEPT !.ready1 = (r1 = "Ready"),
                                           !.ready2 = (r2 = "Ready")]
               /\ result' = IF Fanout_both(r1 = "Ready", r2 = "Ready")
                            THEN "Ready" ELSE "Pending"
       /\ caller' = Called(caller, "poll_ready", result')

FanoutStartSend ==
    /\ caller.granted
    /\ UNCHANGED <<Drivers, NotFanout, f, yielded>>
    /\ Pull
    /\ \E s1 \in SendAnswers, s2 \in SendAnswers \cup {"Skip"} :
       LET h1 == Count(hist, "sends", s1)
           part == Head(source) IN
       /\ (s2 = "Skip") = (s1 = "Err")
       /\ Can(s1, hist) /\ CanSkip(s2, h1)
       /\ hist' = CountSkip(h1, "sends2", s2)
       /\ sent' = Append(sent, part)
       /\ writer' = IF s1 = "Ready" THEN start_send(writer, part) ELSE writer
       /\ fanout' = [fanout EXCEPT
             !.got1 = IF s1 = "Ready" THEN Append(@, part) ELSE @,
             !.sent2 = IF s2 = "Skip" THEN @ ELSE Append(@, part),
             !.got2 = IF s2 = "Ready" THEN Append(@, part) ELSE @,
             !.wr2 = IF s2 = "Ready" THEN start_send(@, part) ELSE @,
             !.failed = @ \/ "Err" \in {s1, s2}]
       /\ IF "Err" \in {s1, s2}
          THEN result' = "Err" /\ caller' = Sending(caller)
          ELSE /\ result' = "Ready"
               /\ caller' = Handed(Sending(caller), <<Ret(part), Ret(part)>>)

FanoutPollFlush ==
    /\ caller.calls < MaxCalls
    /\ UNCHANGED <<Drivers, NotFanout, source, pulled, f, yielded>>
    /\ UNCHANGED <<writer, sent, fanout>>
    /\ \E f1 \in PollAnswers, f2 \in PollAnswers \cup {"Skip"} :
       LET h1 == Count(hist, "flushes", f1) IN
       /\ (f2 = "Skip") = (f1 = "Err")
       /\ Can(f1, hist) /\ CanSkip(f2, h1)
       /\ hist' = CountSkip(h1, "flushes2", f2)
       /\ result' = IF "Err" \in {f1, f2} THEN "Err"
                    ELSE IF Fanout_both(f1 = "Ready", f2 = "Ready")
                    THEN "Ready" ELSE "Pending"
       /\ caller' = Called(caller, "poll_flush", result')

FanoutPollComplete ==
    /\ caller.calls < MaxCalls
    /\ UNCHANGED <<Drivers, NotFanout, source, pulled, f, sent>>
    /\ \E c1 \in PollAnswers, c2 \in PollAnswers \cup {"Skip"} :
       LET h1 == Count(hist, "completes", c1) IN
       /\ (c2 = "Skip") = (c1 # "Ready")
       /\ Can(c1, hist) /\ CanSkip(c2, h1)
       /\ hist' = CountSkip(h1, "completes2", c2)
       /\ writer' = IF c1 = "Ready" THEN poll_complete(writer) ELSE writer
       /\ fanout' = [fanout EXCEPT
             !.wro1 = IF c1 # "Ready" THEN @
                      ELSE IF c2 = "Ready" THEN None
                      ELSE Some(writer.inner),
             !.wr2 = IF c2 = "Ready" THEN poll_complete(@) ELSE @]
       /\ result' = IF c1 # "Ready" THEN c1 ELSE c2
       /\ yielded' = IF c2 = "Ready"
                     THEN Append(yielded,
                                 Ok(<<writer.inner, fanout.wr2.inner>>))
                     ELSE yielded
       /\ caller' = Called(caller, "poll_complete", result')

(***************************************************************************)
(* MultiAsyncWriter: a MultipartWrite over an AsyncWrite                   *)
(***************************************************************************)
\* inner is the AsyncWrite, as the bytes written to it; buf the bytes not
\* yet written to it, written how many of them the running flush_buf has
\* written.
MultiAsyncWriterNew == [inner |-> <<>>, buf |-> <<>>, written |-> 0]

\* The slice a caller writes for the item p of the source.
Slice(p) == <<p, p + 10>>

RECURSIVE Flatten(_)
\* The bytes of the slices of the items q, in order.
Flatten(q) == IF q = <<>> THEN <<>> ELSE Slice(Head(q)) \o Flatten(Tail(q))

MultiAsyncWriter_state == [w |-> multi_async_writer, hist |-> hist]

\* flush_buf after its loop: drain what was written, reset written.
MultiAsyncWriter_drained(w) ==
    [w EXCEPT !.buf = SubSeq(@, w.written + 1, Len(@)), !.written = 0]

RECURSIVE MultiAsyncWriter_flush_buf(_)
\* flush_buf: the outcomes it can have, each with what it returns.
\* poll_write answers Pending, an error or Ok(0), or Ok(n) for some of the
\* bytes left.
MultiAsyncWriter_flush_buf(st) ==
    IF st.w.written >= Len(st.w.buf)
    THEN {[st |-> [st EXCEPT !.w = MultiAsyncWriter_drained(@)],
           out |-> "Ready"]}
    ELSE {[st |-> [st EXCEPT !.hist = Count(@, "writes", "Pending")],
           out |-> "Pending"] : x \in {y \in {1} : Can("Pending", st.hist)}}
         \cup
         {[st |-> [st EXCEPT !.hist = Count(@, "writes", "Err"),
                             !.w = MultiAsyncWriter_drained(@)],
           out |-> "Err"] : x \in {y \in {1} : Can("Err", st.hist)}}
         \cup
         UNION {
            MultiAsyncWriter_flush_buf(
                [st EXCEPT
                   !.hist = Count(@, "writes", "Ready"),
                   !.w.inner = @ \o SubSeq(st.w.buf, st.w.written + 1,
                                           st.w.written + n),
                   !.w.written = @ + n])
            : n \in 1..(Len(st.w.buf) - st.w.written)}

MultiAsyncWriterPollReady ==
    /\ caller.calls < MaxCalls
    /\ UNCHANGED <<Drivers, NotMultiAsyncWriter, source, pulled, f, yielded>>
    /\ UNCHANGED <<writer, sent>>
    /\ \E o \in MultiAsyncWriter_flush_buf(MultiAsyncWriter_state) :
       /\ multi_async_writer' = o.st.w
       /\ hist' = o.st.hist
       /\ result' = o.out
       /\ caller' = Called(caller, "poll_ready", o.out)

MultiAsyncWriterStartWrite ==
    /\ caller.granted
    /\ UNCHANGED <<Drivers, NotMultiAsyncWriter, f, yielded, hist, writer>>
    /\ Pull
    /\ sent' = Append(sent, Head(source))
    /\ multi_async_writer' =
          [multi_async_writer EXCEPT !.buf = @ \o Slice(Head(source))]
    /\ result' = "Ready"
    /\ caller' = Handed(Sending(caller), Len(Slice(Head(source))))

MultiAsyncWriterPollFlush ==
    /\ caller.calls < MaxCalls
    /\ UNCHANGED <<Drivers, NotMultiAsyncWriter, source, pulled, f, yielded>>
    /\ UNCHANGED <<writer, sent, multi_async_writer>>
    /\ \E fl \in PollAnswers :
       /\ Can(fl, hist)
       /\ hist' = Count(hist, "flushes", fl)
       /\ result' = fl
       /\ caller' = Called(caller, "poll_flush", fl)

MultiAsyncWriterPollFreeze ==
    /\ caller.calls < MaxCalls
    /\ UNCHANGED <<Drivers, NotMultiAsyncWriter, source, pulled, f>>
    /\ UNCHANGED <<writer, sent, hist>>
    /\ multi_async_writer' = [multi_async_writer EXCEPT !.inner = <<>>]
    /\ yielded' = Append(yielded, Ok(multi_async_writer.inner))
    /\ result' = "Ready"
    /\ caller' = Called(caller, "poll_freeze", "Ready")

(***************************************************************************)
(* Extend: a MultipartWrite over a collection                              *)
(***************************************************************************)
ExtendNew == [inner |-> Some(<<>>)]

\* Faulty variant: poll_complete leaves the collection in place.
Extend_take_keeps(e) == e

\* self.inner.take()
Extend_take(e) == [e EXCEPT !.inner = None]

ExtendPollReady ==
    /\ caller.calls < MaxCalls
    /\ UNCHANGED <<Drivers, NotExtend, source, pulled, f, yielded>>
    /\ UNCHANGED <<writer, sent, hist, extend>>
    /\ result' = "Ready"
    /\ caller' = Called(caller, "poll_ready", "Ready")

ExtendStartSend ==
    /\ caller.granted
    /\ UNCHANGED <<Drivers, NotExtend, f, yielded, writer, hist>>
    /\ Pull
    /\ sent' = Append(sent, Head(source))
    /\ caller' = Sending(caller)
    /\ IF extend.inner = None
       THEN result' = "Err" /\ extend' = extend
       ELSE /\ extend' = [extend EXCEPT
                  !.inner = Some(Append(Head(@), Head(source)))]
            /\ result' = "Ready"

ExtendPollFlush ==
    /\ caller.calls < MaxCalls
    /\ UNCHANGED <<Drivers, NotExtend, source, pulled, f, yielded>>
    /\ UNCHANGED <<writer, sent, hist, extend>>
    /\ result' = "Ready"
    /\ caller' = Called(caller, "poll_flush", "Ready")

ExtendPollComplete ==
    /\ caller.calls < MaxCalls
    /\ UNCHANGED <<Drivers, NotExtend, source, pulled, f>>
    /\ UNCHANGED <<writer, sent, hist>>
    /\ extend' = Extend_take(extend)
    /\ IF extend.inner = None
       THEN result' = "Err" /\ yielded' = yielded
       ELSE /\ result' = "Ready"
            /\ yielded' = Append(yielded, Ok(Head(extend.inner)))
    /\ caller' = Called(caller, "poll_complete", result')

(***************************************************************************)
(* Then: the result of a completion goes through a future                  *)
(***************************************************************************)
\* future holds the result the closure was called with while the future it
\* returned is unresolved; called counts the calls of the closure.
ThenNew == [future |-> None, called |-> 0]

\* The closure of the adapter: the future it returns resolves to the length
\* of the output, or to the error it was given.
Then_f(res) == IF res.ok THEN Ok(Len(res.out)) ELSE Err

\* Faulty variant: the inner writer is completed on every poll.
Then_is_none_always(t) == TRUE

\* poll_complete: this.future.is_none()
Then_is_none(t) == t.future = None

ThenPollReady ==
    /\ caller.calls < MaxCalls
    /\ UNCHANGED <<NotThen, source, pulled, f, yielded>>
    /\ UNCHANGED <<then_writer, writer, sent>>
    /\ \E r \in PollAnswers :
       /\ Can(r, hist)
       /\ hist' = Count(hist, "readys", r)
       /\ result' = r
       /\ caller' = Called(caller, "poll_ready", r)

ThenStartSend ==
    /\ caller.granted
    /\ UNCHANGED <<NotThen, f, yielded, then_writer>>
    /\ Pull
    /\ \E s \in SendAnswers :
       /\ Can(s, hist)
       /\ hist' = Count(hist, "sends", s)
       /\ sent' = Append(sent, Head(source))
       /\ writer' = IF s = "Ready" THEN start_send(writer, Head(source))
                    ELSE writer
       /\ result' = s
       /\ caller' = Sending(caller)

ThenPollFlush ==
    /\ caller.calls < MaxCalls
    /\ UNCHANGED <<NotThen, source, pulled, f, yielded>>
    /\ UNCHANGED <<then_writer, writer, sent>>
    /\ \E fl \in PollAnswers :
       /\ Can(fl, hist)
       /\ hist' = Count(hist, "flushes", fl)
       /\ result' = fl
       /\ caller' = Called(caller, "poll_flush", fl)

ThenPollComplete ==
    /\ caller.calls < MaxCalls
    /\ UNCHANGED <<NotThen, source, pulled, f, sent>>
    /\ \E c \in PollAnswers \cup {"Skip"}, a \in PollAnswers \cup {"Skip"} :
       LET h1 == CountSkip(hist, "completes", c)
           res == IF c = "Skip" THEN Head(then_writer.future)
                  ELSE IF c = "Ready" THEN Ok(writer.inner) ELSE Err
       IN
       /\ (c # "Skip") = Then_is_none(then_writer)
       /\ (a = "Skip") = (c = "Pending")
       /\ CanSkip(c, hist) /\ CanSkip(a, h1)
       /\ hist' = CountSkip(h1, "resolves", a)
       /\ writer' = IF c = "Ready" THEN poll_complete(writer) ELSE writer
       /\ CASE a = "Skip" ->
               /\ then_writer' = then_writer
               /\ yielded' = yielded
               /\ result' = "Pending"
            [] a = "Pending" ->
               /\ then_writer' =
                    [future |-> Some(res),
                     called |-> then_writer.called
                                + IF c = "Skip" THEN 0 ELSE 1]
               /\ yielded' = yielded
               /\ result' = "Pending"
            [] OTHER ->
               /\ then_writer' =
                    [future |-> None,
                     called |-> then_writer.called
                                + IF c = "Skip" THEN 0 ELSE 1]
               /\ yielded' = Append(yielded,
                                    IF a = "Err" THEN Err ELSE Then_f(res))
               /\ result' = IF a = "Err" \/ ~res.ok THEN "Err" ELSE "Ready"
       /\ caller' = Called(caller, "poll_complete", result')

(***************************************************************************)
(* OnComplete                                                              *)
(***************************************************************************)
\* made counts the writers the bootstrap future has resolved to.
OnCompleteNew ==
    [writer |-> "Some", future |-> "None", is_terminated |-> FALSE,
     made |-> 0]

\* What a run of FeedMultipartWrite over OnComplete leaves alone.
NotFeedOnComplete ==
    <<assembled, try_send, write_until, complete_when, frozen, collect,
      judged, write_complete, collect_completed, send_part, caller,
      Wrappers, then_writer, bootstrapped, for_each_written>>

\* The outcomes of a call on OnComplete: the adapter, the inner writer and
\* the history after the call, and what the call returns.
OnComplete_outcome(oc, w, h, out) == [oc |-> oc, w |-> w, h |-> h, out |-> out]

\* OnComplete::try_poll_ready, which is poll_ready.
OnComplete_try_poll_ready(oc, w, h) ==
    IF oc.writer = "Some"
    THEN {OnComplete_outcome(oc, w, Count(h, "readys", r), r) :
             r \in {a \in PollAnswers : Can(a, h)}}
    ELSE IF oc.future = "Some"
    THEN {OnComplete_outcome(
             CASE a = "Pending" -> oc
               [] a = "Ready" -> [oc EXCEPT !.writer = "Some",
                                            !.future = "None",
                                            !.made = @ + 1]
               [] a = "Err" -> [oc EXCEPT !.writer = "None",
                                          !.future = "None",
                                          !.is_terminated = TRUE],
             IF a = "Ready" THEN TestWriter(None) ELSE w,
             Count(h, "resolves", a),
             IF a = "Err" THEN "Err" ELSE "Pending") :
             a \in {b \in PollAnswers : Can(b, h)}}
    ELSE {OnComplete_outcome([oc EXCEPT !.future = "Some"], w, h, "Pending")}

\* OnComplete::start_send
OnComplete_start_send(oc, w, h, part) ==
    IF oc.writer = "None"
    THEN {OnComplete_outcome(oc, w, h, "Panic")}
    ELSE {OnComplete_outcome(
             oc, IF s = "Ready" THEN start_send(w, part) ELSE w,
             Count(h, "sends", s), s) :
             s \in {a \in SendAnswers : Can(a, h)}}

\* OnComplete::poll_flush
OnComplete_poll_flush(oc, w, h) ==
    IF oc.writer = "None"
    THEN {OnComplete_outcome(oc, w, h, "Panic")}
    ELSE {OnComplete_outcome(oc, w, Count(h, "flushes", fl), fl) :
             fl \in {a \in PollAnswers : Can(a, h)}}

\* OnComplete::poll_complete
OnComplete_poll_complete(oc, w, h) ==
    IF oc.writer = "None"
    THEN {OnComplete_outcome(oc, w, h, "Panic")}
    ELSE {OnComplete_outcome(
             CASE c = "Pending" -> oc
               [] c = "Ready" -> [oc EXCEPT !.writer = "None",
                                            !.future = "Some"]
               [] c = "Err" -> [oc EXCEPT !.writer = "None",
                                          !.future = "None",
                                          !.is_terminated = TRUE],
             IF c = "Ready" THEN poll_complete(w) ELSE w,
             Count(h, "completes", c), c) :
             c \in {a \in PollAnswers : Can(a, h)}}

\* FeedMultipartWrite over OnComplete, the loop head: a fused writer ends
\* the stream.
OnCompleteFeedFused ==
    /\ result \notin {"End", "Panic"}
    /\ UNCHANGED NotFeedOnComplete
    /\ on_complete.is_terminated
    /\ feed' = [feed EXCEPT !.is_terminated = TRUE]
    /\ result' = "End"
    /\ UNCHANGED <<source, f, writer, pulled, sent, yielded, hist,
                   on_complete>>

\* State::Write with WriteBuf::poll_inner_send.
OnCompleteFeedWrite ==
    /\ result \notin {"End", "Panic"}
    /\ UNCHANGED NotFeedOnComplete
    /\ ~on_complete.is_terminated
    /\ feed.state = "Write"
    /\ UNCHANGED <<source, f, pulled>>
    /\ IF feed.buffered = None
       THEN /\ feed' = [feed EXCEPT !.state = "Next"]
            /\ result' = "Running"
            /\ UNCHANGED <<writer, sent, yielded, hist, on_complete>>
       ELSE \E p \in OnComplete_try_poll_ready(on_complete, writer, hist) :
            CASE p.out = "Pending" ->
                 \E q \in OnComplete_poll_flush(p.oc, p.w, p.h) :
                 /\ on_complete' = q.oc
                 /\ writer' = q.w
                 /\ hist' = q.h
                 /\ sent' = sent
                 /\ CASE q.out = "Panic" ->
                         /\ result' = "Panic"
                         /\ UNCHANGED <<yielded, feed>>
                      [] q.out = "Err" ->
                         /\ yielded' = Append(yielded, Err)
                         /\ feed' = Feed_on_error(feed)
                         /\ result' = "Item"
                      [] OTHER ->
                         /\ result' = "Pending"
                         /\ UNCHANGED <<yielded, feed>>
              [] p.out = "Err" ->
                 /\ on_complete' = p.oc
                 /\ writer' = p.w
                 /\ hist' = p.h
                 /\ sent' = sent
                 /\ yielded' = Append(yielded, Err)
                 /\ feed' = Feed_on_error(feed)
                 /\ result' = "Item"
              [] p.out = "Ready" ->
                 \E q \in OnComplete_start_send(p.oc, p.w, p.h,
                                                feed.buffered[1]) :
                 /\ on_complete' = q.oc
                 /\ writer' = q.w
                 /\ hist' = q.h
                 /\ CASE q.out = "Panic" ->
                         /\ result' = "Panic"
                         /\ UNCHANGED <<yielded, sent>>
                         /\ feed' = [feed EXCEPT !.buffered = None]
                      [] q.out = "Err" ->
                         /\ sent' = Append(sent, feed.buffered[1])
                         /\ feed' = Feed_on_error(
                                       [feed EXCEPT !.buffered = None])
                         /\ yielded' = Append(yielded, Err)
                         /\ result' = "Item"
                      [] q.out = "Ready" ->
                         /\ sent' = Append(sent, feed.buffered[1])
                         /\ feed' = [feed EXCEPT
                               !.buffered = None,
                               !.is_empty = FALSE,
                               !.state = IF Ret(feed.buffered[1]) \in f
                                         THEN "Complete" ELSE "Write"]
                         /\ yielded' = yielded
                         /\ result' = "Running"

\* State::Next.
OnCompleteFeedNext ==
    /\ result \notin {"End", "Panic"}
    /\ UNCHANGED NotFeedOnComplete
    /\ ~on_complete.is_terminated
    /\ feed.state = "Next"
    /\ UNCHANGED <<f, writer, sent, yielded, on_complete>>
    /\ \/ /\ Can("Pending", hist)
          /\ hist' = Count(hist, "polls", "Pending")
          /\ result' = "Pending"
          /\ UNCHANGED <<source, pulled, feed>>
       \/ /\ Pull
          /\ hist' = Count(hist, "polls", "Ready")
          /\ feed' = [set_buffered(feed, Head(source)) EXCEPT !.state = "Write"]
          /\ result' = "Running"
       \/ /\ source = <<>>
          /\ hist' = Count(hist, "polls", "Ready")
          /\ UNCHANGED <<source, pulled>>
          /\ IF WriteBuf_is_empty(feed)
             THEN /\ feed' = [feed EXCEPT !.stream_terminated = TRUE]
                  /\ result' = "End"
             ELSE /\ feed' = [feed EXCEPT !.stream_terminated = TRUE,
                                          !.state = "Complete"]
                  /\ result' = "Running"

\* State::Complete with WriteBuf::poll_inner_complete.
OnCompleteFeedComplete ==
    /\ result \notin {"End", "Panic"}
    /\ UNCHANGED NotFeedOnComplete
    /\ ~on_complete.is_terminated
    /\ feed.state = "Complete"
    /\ UNCHANGED <<source, f, pulled, sent>>
    /\ \E q \in OnComplete_poll_complete(on_complete, writer, hist) :
       /\ on_complete' = q.oc
       /\ writer' = q.w
       /\ hist' = q.h
       /\ CASE q.out = "Panic" ->
               /\ result' = "Panic"
               /\ UNCHANGED <<yielded, feed>>
            [] q.out = "Pending" ->
               /\ result' = "Pending"
               /\ UNCHANGED <<yielded, feed>>
            [] q.out = "Err" ->
               /\ yielded' = Append(yielded, Err)
               /\ result' = "Item"
               /\ feed' = feed
            [] q.out = "Ready" ->
               /\ yielded' = Append(yielded, Ok(writer.inner))
               /\ feed' = [feed EXCEPT
                     !.is_empty = TRUE,
                     !.state = Feed_completed(feed)]
               /\ result' = "Item"

\* State::Shutdown.
OnCompleteFeedShutdown ==
    /\ result \notin {"End", "Panic"}
    /\ UNCHANGED NotFeedOnComplete
    /\ ~on_complete.is_terminated
    /\ feed.state = "Shutdown"
    /\ feed' = [feed EXCEPT !.is_terminated = TRUE]
    /\ result' = "End"
    /\ UNCHANGED <<source, f, writer, pulled, sent, yielded, hist,
                   on_complete>>

(***************************************************************************)
(* Bootstrapped                                                            *)
(***************************************************************************)
\* made counts the writers the bootstrap future has resolved to.
BootstrappedNew == [writer |-> "Some", future |-> "None", made |-> 0]

\* What a run of FeedMultipartWrite over Bootstrapped leaves alone.
NotFeedBootstrapped ==
    <<assembled, try_send, write_until, complete_when, frozen, collect,
      judged, write_complete, collect_completed, send_part, caller,
      Wrappers, then_writer, on_complete, for_each_written>>

\* FusedMultipartWrite::is_terminated
Bootstrapped_is_terminated(bs) == bs.writer = "None" /\ bs.future = "None"

\* The outcomes of a call on Bootstrapped: the adapter, the inner writer
\* and the history after the call, and what the call returns.
Bootstrapped_outcome(bs, w, h, out) ==
    [bs |-> bs, w |-> w, h |-> h, out |-> out]

\* Bootstrapped::poll_new_writer; out is "Ready" for Ready(Ok(())).
Bootstrapped_poll_new_writer(bs, w, h) ==
    {Bootstrapped_outcome(
        CASE a = "Pending" -> [bs EXCEPT !.future = "Some"]
          [] a = "Ready" -> [bs EXCEPT !.future = "None",
                                       !.writer = "Some",
                                       !.made = @ + 1]
          [] a = "Err" -> [bs EXCEPT !.future = "None"],
        IF a = "Ready" THEN TestWriter(None) ELSE w,
        Count(h, "resolves", a), a) :
        a \in {b \in PollAnswers : Can(b, h)}}

\* Bootstrapped::poll_ready
Bootstrapped_poll_ready(bs, w, h) ==
    LET made == IF bs.writer = "None"
                THEN Bootstrapped_poll_new_writer(bs, w, h)
                ELSE {Bootstrapped_outcome(bs, w, h, "Ready")}
    IN  UNION {IF n.out # "Ready" THEN {n}
               ELSE {Bootstrapped_outcome(n.bs, n.w,
                                          Count(n.h, "readys", r), r) :
                        r \in {a \in PollAnswers : Can(a, n.h)}} :
               n \in made}

\* Bootstrapped::start_send
Bootstrapped_start_send(bs, w, h, part) ==
    IF bs.writer = "None"
    THEN {Bootstrapped_outcome(bs, w, h, "Panic")}
    ELSE {Bootstrapped_outcome(
             bs, IF s = "Ready" THEN start_send(w, part) ELSE w,
             Count(h, "sends", s), s) :
             s \in {a \in SendAnswers : Can(a, h)}}

\* Bootstrapped::poll_flush
Bootstrapped_poll_flush(bs, w, h) ==
    IF bs.writer = "None"
    THEN {Bootstrapped_outcome(bs, w, h, "Panic")}
    ELSE {Bootstrapped_outcome(bs, w, Count(h, "flushes", fl), fl) :
             fl \in {a \in PollAnswers : Can(a, h)}}

\* Bootstrapped::poll_complete
Bootstrapped_poll_complete(bs, w, h) ==
    IF bs.writer = "None"
    THEN {Bootstrapped_outcome(bs, w, h, "Panic")}
    ELSE {Bootstrapped_outcome(
             IF c = "Pending" THEN bs ELSE [bs EXCEPT !.writer = "None"],
             IF c = "Ready" THEN poll_complete(w) ELSE w,
             Count(h, "completes", c), c) :
             c \in {a \in PollAnswers : Can(a, h)}}

\* FeedMultipartWrite over Bootstrapped, the loop head: a fused writer ends
\* the stream.
BootstrappedFeedFused ==
    /\ result \notin {"End", "Panic"}
    /\ UNCHANGED NotFeedBootstrapped
    /\ Bootstrapped_is_terminated(bootstrapped)
    /\ feed' = [feed EXCEPT !.is_terminated = TRUE]
    /\ result' = "End"
    /\ UNCHANGED <<source, f, writer, pulled, sent, yielded, hist,
                   bootstrapped>>

\* State::Write with WriteBuf::poll_inner_send.
BootstrappedFeedWrite ==
    /\ result \notin {"End", "Panic"}
    /\ UNCHANGED NotFeedBootstrapped
    /\ ~Bootstrapped_is_terminated(bootstrapped)
    /\ feed.state = "Write"
    /\ UNCHANGED <<source, f, pulled>>
    /\ IF feed.buffered = None
       THEN /\ feed' = [feed EXCEPT !.state = "Next"]
            /\ result' = "Running"
            /\ UNCHANGED <<writer, sent, yielded, hist, bootstrapped>>
       ELSE \E p \in Bootstrapped_poll_ready(bootstrapped, writer, hist) :
            CASE p.out = "Pending" ->
                 \E q \in Bootstrapped_poll_flush(p.bs, p.w, p.h) :
                 /\ bootstrapped' = q.bs
                 /\ writer' = q.w
                 /\ hist' = q.h
                 /\ sent' = sent
                 /\ CASE q.out = "Panic" ->
                         /\ result' = "Panic"
                         /\ UNCHANGED <<yielded, feed>>
                      [] q.out = "Err" ->
                         /\ yielded' = Append(yielded, Err)
                         /\ feed' = Feed_on_error(feed)
                         /\ result' = "Item"
                      [] OTHER ->
                         /\ result' = "Pending"
                         /\ UNCHANGED <<yielded, feed>>
              [] p.out = "Err" ->
                 /\ bootstrapped' = p.bs
                 /\ writer' = p.w
                 /\ hist' = p.h
                 /\ sent' = sent
                 /\ yielded' = Append(yielded, Err)
                 /\ feed' = Feed_on_error(feed)
                 /\ result' = "Item"
              [] p.out = "Ready" ->
                 \E q \in Bootstrapped_start_send(p.bs, p.w, p.h,
                                                feed.buffered[1]) :
                 /\ bootstrapped' = q.bs
                 /\ writer' = q.w
                 /\ hist' = q.h
                 /\ CASE q.out = "Panic" ->
                         /\ result' = "Panic"
                         /\ UNCHANGED <<yielded, sent>>
                         /\ feed' = [feed EXCEPT !.buffered = None]
                      [] q.out = "Err" ->
                         /\ sent' = Append(sent, feed.buffered[1])
                         /\ feed' = Feed_on_error(
                                       [feed EXCEPT !.buffered = None])
                         /\ yielded' = Append(yielded, Err)
                         /\ result' = "Item"
                      [] q.out = "Ready" ->
                         /\ sent' = Append(sent, feed.buffered[1])
                         /\ feed' = [feed EXCEPT
                               !.buffered = None,
                               !.is_empty = FALSE,
                               !.state = IF Ret(feed.buffered[1]) \in f
                                         THEN "Complete" ELSE "Write"]
                         /\ yielded' = yielded
                         /\ result' = "Running"

\* State::Next.
BootstrappedFeedNext ==
    /\ result \notin {"End", "Panic"}
    /\ UNCHANGED NotFeedBootstrapped
    /\ ~Bootstrapped_is_terminated(bootstrapped)
    /\ feed.state = "Next"
    /\ UNCHANGED <<f, writer, sent, yielded, bootstrapped>>
    /\ \/ /\ Can("Pending", hist)
          /\ hist' = Count(hist, "polls", "Pending")
          /\ result' = "Pending"
          /\ UNCHANGED <<source, pulled, feed>>
       \/ /\ Pull
          /\ hist' = Count(hist, "polls", "Ready")
          /\ feed' = [set_buffered(feed, Head(source)) EXCEPT !.state = "Write"]
          /\ result' = "Running"
       \/ /\ source = <<>>
          /\ hist' = Count(hist, "polls", "Ready")
          /\ UNCHANGED <<source, pulled>>
          /\ IF WriteBuf_is_empty(feed)
             THEN /\ feed' = [feed EXCEPT !.stream_terminated = TRUE]
                  /\ result' = "End"
             ELSE /\ feed' = [feed EXCEPT !.stream_terminated = TRUE,
                                          !.state = "Complete"]
                  /\ result' = "Running"

\* State::Complete with WriteBuf::poll_inner_complete.
BootstrappedFeedComplete ==
    /\ result \notin {"End", "Panic"}
    /\ UNCHANGED NotFeedBootstrapped
    /\ ~Bootstrapped_is_terminated(bootstrapped)
    /\ feed.state = "Complete"
    /\ UNCHANGED <<source, f, pulled, sent>>
    /\ \E q \in Bootstrapped_poll_complete(bootstrapped, writer, hist) :
       /\ bootstrapped' = q.bs
       /\ writer' = q.w
       /\ hist' = q.h
       /\ CASE q.out = "Panic" ->
               /\ result' = "Panic"
               /\ UNCHANGED <<yielded, feed>>
            [] q.out = "Pending" ->
               /\ result' = "Pending"
               /\ UNCHANGED <<yielded, feed>>
            [] q.out = "Err" ->
               /\ yielded' = Append(yielded, Err)
               /\ result' = "Item"
               /\ feed' = feed
            [] q.out = "Ready" ->
               /\ yielded' = Append(yielded, Ok(writer.inner))
               /\ feed' = [feed EXCEPT
                     !.is_empty = TRUE,
                     !.state = Feed_completed(feed)]
               /\ result' = "Item"

\* State::Shutdown is never entered by the loop over Bootstrapped: every
\* answer of poll_complete that is not Pending leaves writer and future
\* None, and the loop head ends the stream before the state is looked at.
BootstrappedFeedNoShutdown ==
    feed.state = "Shutdown" => Bootstrapped_is_terminated(bootstrapped)

(***************************************************************************)
(* ForEachWritten and its StreamWriter                                     *)
(***************************************************************************)
\* buffered and is_empty are the fields of the StreamWriter; called is what
\* the callback was given, call after call, and done counts the callback
\* futures that have completed.
ForEachWrittenNew ==
    [fut |-> None, state |-> "Write", terminated |-> FALSE,
     buffered |-> None, is_empty |-> TRUE, called |-> <<>>, done |-> 0]

\* What a run of ForEachWritten leaves alone.
NotForEachWritten ==
    <<Streams, caller, Wrappers, then_writer, on_complete, bootstrapped>>

\* The writer's should_freeze after the part was written: the closure of
\* the adapter applied to what start_write returned.
StreamWriter_should_freeze(part) == Ret(part) \in f

\* Faulty variant: an error of the writer is dropped.
ForEachWritten_callback_oks(few, res) ==
    IF res.ok THEN [few EXCEPT !.fut = Some(res),
                               !.called = Append(@, res)]
    ELSE few

\* (this.callback)(res); this.fut.set(Some(fut))
ForEachWritten_callback(few, res) ==
    [few EXCEPT !.fut = Some(res), !.called = Append(@, res)]

\* The outcomes of a call on the StreamWriter: its fields, the inner
\* writer and the history after the call, what the call answers and the
\* value that comes with the answer.
StreamWriter_outcome(sw, w, h, out, val) ==
    [sw |-> sw, w |-> w, h |-> h, out |-> out, val |-> val]

\* StreamWriter::poll_write_part with a buffered part; out is "Pending",
\* "Err" or the next state.
StreamWriter_poll_write_part(sw, w, h) ==
    UNION {
      LET h1 == Count(h, "readys", r) IN
      CASE r = "Pending" ->
           {StreamWriter_outcome(sw, w, Count(h1, "flushes", fl),
                                 IF fl = "Err" THEN "Err" ELSE "Pending",
                                 <<>>) :
               fl \in {a \in PollAnswers : Can(a, h1)}}
        [] r = "Err" -> {StreamWriter_outcome(sw, w, h1, "Err", <<>>)}
        [] r = "Ready" ->
           {StreamWriter_outcome(
               [sw EXCEPT !.buffered = None, !.is_empty = FALSE],
               IF s = "Ready" THEN start_send(w, sw.buffered[1]) ELSE w,
               Count(h1, "sends", s),
               IF s = "Err" THEN "Err"
               ELSE IF StreamWriter_should_freeze(sw.buffered[1])
                    THEN "Freeze" ELSE "Next",
               sw.buffered) :
               s \in {a \in SendAnswers : Can(a, h1)}} :
      r \in {a \in PollAnswers : Can(a, h)}}

\* StreamWriter::poll_freeze_output; out is "Pending", "Err" or "Ok", and
\* val the output.
StreamWriter_poll_freeze_output(sw, w, h) ==
    UNION {
      LET h1 == Count(h, "flushes", fl) IN
      IF fl # "Ready"
      THEN {StreamWriter_outcome(sw, w, h1, fl, <<>>)}
      ELSE {StreamWriter_outcome(
               IF c = "Pending" THEN sw ELSE [sw EXCEPT !.is_empty = TRUE],
               IF c = "Ready" THEN poll_complete(w) ELSE w,
               Count(h1, "completes", c),
               IF c = "Ready" THEN "Ok" ELSE c,
               IF c = "Ready" THEN w.inner ELSE <<>>) :
               c \in {a \in PollAnswers : Can(a, h1)}} :
      fl \in {a \in PollAnswers : Can(a, h)}}

\* The head of the loop: if let Some(fut) = this.fut
ForEachWritten_waits(few) == few.fut # None

\* The head of the loop with a callback future: it is polled, and the loop
\* goes on only when it has completed.
ForEachWrittenAwait ==
    /\ result # "Ready"
    /\ UNCHANGED NotForEachWritten
    /\ ForEachWritten_waits(for_each_written)
    /\ UNCHANGED <<source, f, writer, pulled, sent, yielded>>
    /\ \E a \in {"Ready", "Pending"} :
       /\ Can(a, hist)
       /\ hist' = Count(hist, "resolves", a)
       /\ IF a = "Pending"
          THEN /\ result' = "Pending"
               /\ for_each_written' = for_each_written
          ELSE /\ result' = "Running"
               /\ for_each_written' =
                     [for_each_written EXCEPT !.fut = None,
                                              !.done = @ + 1]

\* StreamWriterState::Write
ForEachWrittenWrite ==
    /\ result # "Ready"
    /\ UNCHANGED NotForEachWritten
    /\ ~ForEachWritten_waits(for_each_written)
    /\ for_each_written.state = "Write"
    /\ UNCHANGED <<source, f, pulled>>
    /\ IF for_each_written.buffered = None
       THEN /\ for_each_written' = [for_each_written EXCEPT !.state = "Next"]
            /\ result' = "Running"
            /\ UNCHANGED <<writer, sent, yielded, hist>>
       ELSE \E q \in StreamWriter_poll_write_part(
                        for_each_written, writer, hist) :
            /\ writer' = q.w
            /\ hist' = q.h
            /\ sent' = sent \o q.val
            /\ CASE q.out = "Pending" ->
                    /\ result' = "Pending"
                    /\ for_each_written' = q.sw
                    /\ yielded' = yielded
                 [] q.out = "Err" ->
                    /\ result' = "Running"
                    /\ yielded' = Append(yielded, Err)
                    /\ for_each_written' =
                          ForEachWritten_callback(
                              [q.sw EXCEPT !.state = "Write"], Err)
                 [] OTHER ->
                    /\ result' = "Running"
                    /\ yielded' = yielded
                    /\ for_each_written' = [q.sw EXCEPT !.state = q.out]

\* StreamWriterState::Next
ForEachWrittenNext ==
    /\ result # "Ready"
    /\ UNCHANGED NotForEachWritten
    /\ ~ForEachWritten_waits(for_each_written)
    /\ for_each_written.state = "Next"
    /\ UNCHANGED <<f, writer, sent, yielded>>
    /\ \/ /\ Can("Pending", hist)
          /\ hist' = Count(hist, "polls", "Pending")
          /\ result' = "Pending"
          /\ UNCHANGED <<source, pulled, for_each_written>>
       \/ /\ Pull
          /\ hist' = Count(hist, "polls", "Ready")
          /\ for_each_written' =
                [for_each_written EXCEPT !.buffered = Some(Head(source)),
                                         !.state = "Write"]
          /\ result' = "Running"
       \/ /\ source = <<>>
          /\ hist' = Count(hist, "polls", "Ready")
          /\ UNCHANGED <<source, pulled>>
          /\ IF StreamWriter_is_empty(for_each_written)
             THEN /\ for_each_written' =
                        [for_each_written EXCEPT !.terminated = TRUE]
                  /\ result' = "Ready"
             ELSE /\ for_each_written' =
                        [for_each_written EXCEPT !.state = "Shutdown(false)"]
                  /\ result' = "Running"

\* StreamWriterState::Freeze
ForEachWrittenFreeze ==
    /\ result # "Ready"
    /\ UNCHANGED NotForEachWritten
    /\ ~ForEachWritten_waits(for_each_written)
    /\ for_each_written.state = "Freeze"
    /\ UNCHANGED <<source, f, pulled, sent>>
    /\ \E q \in StreamWriter_poll_freeze_output(
                   for_each_written, writer, hist) :
       /\ writer' = q.w
       /\ hist' = q.h
       /\ IF q.out = "Pending"
          THEN /\ result' = "Pending"
               /\ for_each_written' = q.sw
               /\ yielded' = yielded
          ELSE LET output == IF q.out = "Ok" THEN Ok(q.val) ELSE Err IN
               /\ result' = "Running"
               /\ yielded' = Append(yielded, output)
               /\ for_each_written' =
                     ForEachWritten_callback(
                         [q.sw EXCEPT !.state = "Write"], output)

\* StreamWriterState::Shutdown(now) if now
ForEachWrittenShutdownNow ==
    /\ result # "Ready"
    /\ UNCHANGED NotForEachWritten
    /\ ~ForEachWritten_waits(for_each_written)
    /\ for_each_written.state = "Shutdown(true)"
    /\ result' = "Ready"
    /\ UNCHANGED <<source, f, writer, pulled, sent, yielded, hist,
                   for_each_written>>

\* StreamWriterState::Shutdown(_)
ForEachWrittenShutdown ==
    /\ result # "Ready"
    /\ UNCHANGED NotForEachWritten
    /\ ~ForEachWritten_waits(for_each_written)
    /\ for_each_written.state = "Shutdown(false)"
    /\ UNCHANGED <<source, f, pulled, sent>>
    /\ \E q \in StreamWriter_poll_freeze_output(
                   for_each_written, writer, hist) :
       /\ writer' = q.w
       /\ hist' = q.h
       /\ IF q.out = "Pending"
          THEN /\ result' = "Pending"
               /\ for_each_written' = q.sw
               /\ yielded' = yielded
          ELSE LET output == IF q.out = "Ok" THEN Ok(q.val) ELSE Err IN
               /\ result' = "Running"
               /\ yielded' = Append(yielded, output)
               /\ for_each_written' =
                     ForEachWritten_callback(
                         [q.sw EXCEPT !.state = "Shutdown(true)"], output)

(***************************************************************************)
(* Specifications: one per driver                                          *)
(***************************************************************************)
EnvInit ==
    /\ source \in Sources
    /\ pulled = <<>>
    /\ sent = <<>>
    /\ yielded = <<>>
    /\ hist = HistInit
    /\ result = "Start"

\* The writer adapters before their first call.
IdleAdapters ==
    /\ caller = CallerNew
    /\ buffered = BufferedNew(0)
    /\ with_writer = WithNew
    /\ lift = LiftNew
    /\ fold_ret = FoldRetNew
    /\ fanout = FanoutNew
    /\ multi_async_writer = MultiAsyncWriterNew
    /\ extend = ExtendNew
    /\ assemble = AssembleNew
    /\ then_writer = ThenNew
    /\ on_complete = OnCompleteNew
    /\ bootstrapped = BootstrappedNew
    /\ for_each_written = ForEachWrittenNew

\* The later drivers and the history of WriteUntil before the first poll.
IdleLater ==
    /\ IdleAdapters
    /\ judged = <<>>
    /\ write_complete = WriteCompleteNew
    /\ collect_completed = CollectCompletedNew
    /\ send_part = SendPartNone

\* Every driver before its first poll.
Idle ==
    /\ feed = FeedNew
    /\ assembled = AssembledNew
    /\ fuse = FuseNew({})
    /\ try_send = TrySendNew
    /\ write_until = WriteUntilNew
    /\ complete_when = CompleteWhenNew
    /\ frozen = FrozenNew
    /\ collect = CollectCompleteNew(<<>>)
    /\ IdleLater

InitFeed ==
    /\ EnvInit
    /\ f \in Policies
    /\ writer \in {TestWriter(m) : m \in MaxCompletedOpts}
    /\ Idle

NextFeed ==
    \/ FeedFused
    \/ FeedWrite
    \/ FeedNext
    \/ FeedComplete
    \/ FeedShutdown

SpecFeed == InitFeed /\ [][NextFeed]_vars

\* The stream is polled again and again until it has ended.
SpecFeedFair == SpecFeed /\ WF_vars(NextFeed)

InitAssembled ==
    /\ EnvInit
    /\ f \in AssembledPolicies
    /\ writer = TestWriter(None)
    /\ feed = FeedNew
    /\ assembled = AssembledNew
    /\ fuse \in {FuseNew(c) : c \in FuseClosures}
    /\ try_send = TrySendNew
    /\ write_until = WriteUntilNew
    /\ complete_when = CompleteWhenNew
    /\ frozen = FrozenNew
    /\ collect = CollectCompleteNew(<<>>)
    /\ IdleLater

NextAssembled ==
    \/ AssembledSend
    \/ AssembledPollNext
    \/ AssembledPollComplete
    \/ AssembledTerminated

SpecAssembled == InitAssembled /\ [][NextAssembled]_vars

InitWriteUntil ==
    /\ EnvInit
    /\ f \in Policies
    /\ writer = TestWriter(None)
    /\ Idle

NextWriteUntil ==
    \/ WriteUntilTerminating
    \/ WriteUntilComplete
    \/ WriteUntilPollNext

SpecWriteUntil == InitWriteUntil /\ [][NextWriteUntil]_vars

InitCompleteWhen ==
    /\ EnvInit
    /\ f \in Policies
    /\ writer = TestWriter(None)
    /\ Idle

NextCompleteWhen ==
    \/ CompleteWhenComplete
    \/ CompleteWhenPollNext

SpecCompleteWhen == InitCompleteWhen /\ [][NextCompleteWhen]_vars

InitFrozen ==
    /\ EnvInit
    /\ f \in Policies
    /\ writer = TestWriter(None)
    /\ Idle

NextFrozen ==
    \/ FrozenWrite
    \/ FrozenNext
    \/ FrozenFreeze
    \/ FrozenShutdown

SpecFrozen == InitFrozen /\ [][NextFrozen]_vars

\* CollectComplete alone: the shared source stays where it is, the future
\* draws from a source of its own.
InitCollect ==
    /\ EnvInit
    /\ source = <<>>
    /\ f = {}
    /\ writer = TestWriter(None)
    /\ feed = FeedNew
    /\ assembled = AssembledNew
    /\ fuse = FuseNew({})
    /\ try_send = TrySendNew
    /\ write_until = WriteUntilNew
    /\ complete_when = CompleteWhenNew
    /\ frozen = FrozenNew
    /\ collect \in {CollectCompleteNew(src) : src \in Sources}
    /\ IdleLater

NextCollect ==
    \/ CollectSend
    \/ CollectFinish
    \/ CollectPoll

SpecCollect == InitCollect /\ [][NextCollect]_vars

\* WriteUntil with the closure that is always false, next to a
\* CollectComplete over an equal source and an equal writer.
InitBoth ==
    /\ EnvInit
    /\ f = {}
    /\ writer = TestWriter(None)
    /\ feed = FeedNew
    /\ assembled = AssembledNew
    /\ fuse = FuseNew({})
    /\ try_send = TrySendNew
    /\ write_until = WriteUntilNew
    /\ complete_when = CompleteWhenNew
    /\ frozen = FrozenNew
    /\ collect = CollectCompleteNew(source)
    /\ IdleLater

NextBoth ==
    \/ WriteUntilTerminating
    \/ WriteUntilComplete
    \/ WriteUntilPollNext
    \/ CollectSend
    \/ CollectFinish
    \/ CollectPoll

SpecBoth == InitBoth /\ [][NextBoth]_vars

InitTrySend ==
    /\ EnvInit
    /\ f = {}
    /\ writer = TestWriter(None)
    /\ Idle

NextTrySend == TrySendPollNext

SpecTrySend == InitTrySend /\ [][NextTrySend]_vars

\* TrySend under a caller that also asks for completions.
NextTrySendCaller ==
    \/ TrySendPollNext
    \/ TrySendPollComplete

SpecTrySendCaller == InitTrySend /\ [][NextTrySendCaller]_vars

\* WriteUntil under a caller that polls again after the end of the stream.
NextWriteUntilRepoll ==
    \/ WriteUntilTerminating
    \/ WriteUntilComplete
    \/ WriteUntilPollNext
    \/ WriteUntilRepoll

SpecWriteUntilRepoll == InitWriteUntil /\ [][NextWriteUntilRepoll]_vars

InitWriteComplete ==
    /\ EnvInit
    /\ f = {}
    /\ writer = TestWriter(None)
    /\ Idle

NextWriteComplete ==
    \/ WriteCompleteSend
    \/ WriteCompleteFinish
    \/ WriteCompletePoll

SpecWriteComplete == InitWriteComplete /\ [][NextWriteComplete]_vars

InitCollectCompleted ==
    /\ source \in ResultSources
    /\ pulled = <<>>
    /\ sent = <<>>
    /\ yielded = <<>>
    /\ hist = HistInit
    /\ result = "Start"
    /\ f = {}
    /\ writer = TestWriter(None)
    /\ Idle

NextCollectCompleted ==
    \/ CollectCompletedSend
    \/ CollectCompletedPoll

SpecCollectCompleted == InitCollectCompleted /\ [][NextCollectCompleted]_vars

\* The parts of the source are what the caller passes to send_part, one
\* future after the other on the same writer.
InitSendPart ==
    /\ EnvInit
    /\ f = {}
    /\ writer = TestWriter(None)
    /\ Idle

NextSendPart ==
    \/ SendPartCall
    \/ SendPartPoll

SpecSendPart == InitSendPart /\ [][NextSendPart]_vars

\* The stream drivers before their first poll, for a run of an adapter.
IdleDrivers ==
    /\ feed = FeedNew
    /\ assembled = AssembledNew
    /\ try_send = TrySendNew
    /\ write_until = WriteUntilNew
    /\ complete_when = CompleteWhenNew
    /\ frozen = FrozenNew
    /\ collect = CollectCompleteNew(<<>>)
    /\ judged = <<>>
    /\ write_complete = WriteCompleteNew
    /\ collect_completed = CollectCompletedNew
    /\ send_part = SendPartNone

\* A writer adapter before its first call, around a fresh TestWriter.
InitAdapter ==
    /\ EnvInit
    /\ f = {}
    /\ writer = TestWriter(None)
    /\ IdleDrivers
    /\ IdleAdapters
    /\ fuse = FuseNew({})

InitFuse ==
    /\ EnvInit
    /\ f = {}
    /\ writer = TestWriter(None)
    /\ IdleDrivers
    /\ IdleAdapters
    /\ fuse \in {FuseNew(c) : c \in FuseClosures}

NextFuse ==
    \/ FusePollReady
    \/ FuseStartSend
    \/ FusePollFlush
    \/ FusePollComplete

SpecFuse == InitFuse /\ [][NextFuse]_vars

InitWith == InitAdapter

NextWith ==
    \/ WithPollReady
    \/ WithStartSend
    \/ WithPollFlush
    \/ WithPollComplete

SpecWith == InitWith /\ [][NextWith]_vars

NextLift ==
    \/ LiftPollReady
    \/ LiftStartSend
    \/ LiftPollFlush
    \/ LiftPollComplete

SpecLift == InitAdapter /\ [][NextLift]_vars

NextAssembleLift ==
    \/ AssembleLiftSend
    \/ AssembleLiftPollNext
    \/ AssembleLiftPollComplete

SpecAssembleLift == InitAdapter /\ [][NextAssembleLift]_vars

NextFoldRet ==
    \/ FoldRetPollReady
    \/ FoldRetStartSend
    \/ FoldRetPollFlush
    \/ FoldRetPollComplete

SpecFoldRet == InitAdapter /\ [][NextFoldRet]_vars

NextFanout ==
    \/ FanoutPollReady
    \/ FanoutStartSend
    \/ FanoutPollFlush
    \/ FanoutPollComplete

SpecFanout == InitAdapter /\ [][NextFanout]_vars

NextMultiAsyncWriter ==
    \/ MultiAsyncWriterPollReady
    \/ MultiAsyncWriterStartWrite
    \/ MultiAsyncWriterPollFlush
    \/ MultiAsyncWriterPollFreeze

SpecMultiAsyncWriter == InitAdapter /\ [][NextMultiAsyncWriter]_vars

NextExtend ==
    \/ ExtendPollReady
    \/ ExtendStartSend
    \/ ExtendPollFlush
    \/ ExtendPollComplete

SpecExtend == InitAdapter /\ [][NextExtend]_vars

NextThen ==
    \/ ThenPollReady
    \/ ThenStartSend
    \/ ThenPollFlush
    \/ ThenPollComplete

SpecThen == InitAdapter /\ [][NextThen]_vars

\* FeedMultipartWrite over OnComplete around a fresh TestWriter.
InitFeedAdapter ==
    /\ EnvInit
    /\ f \in Policies
    /\ writer = TestWriter(None)
    /\ IdleDrivers
    /\ IdleAdapters
    /\ fuse = FuseNew({})

NextOnCompleteFeed ==
    \/ OnCompleteFeedFused
    \/ OnCompleteFeedWrite
    \/ OnCompleteFeedNext
    \/ OnCompleteFeedComplete
    \/ OnCompleteFeedShutdown

SpecOnCompleteFeed == InitFeedAdapter /\ [][NextOnCompleteFeed]_vars

NextBootstrappedFeed ==
    \/ BootstrappedFeedFused
    \/ BootstrappedFeedWrite
    \/ BootstrappedFeedNext
    \/ BootstrappedFeedComplete

SpecBootstrappedFeed == InitFeedAdapter /\ [][NextBootstrappedFeed]_vars

NextForEachWritten ==
    \/ ForEachWrittenAwait
    \/ ForEachWrittenWrite
    \/ ForEachWrittenNext
    \/ ForEachWrittenFreeze
    \/ ForEachWrittenShutdownNow
    \/ ForEachWrittenShutdown

SpecForEachWritten == InitFeedAdapter /\ [][NextForEachWritten]_vars

InitBuffered ==
    /\ EnvInit
    /\ f = {}
    /\ writer = TestWriter(None)
    /\ feed = FeedNew
    /\ assembled = AssembledNew
    /\ fuse = FuseNew({})
    /\ try_send = TrySendNew
    /\ write_until = WriteUntilNew
    /\ complete_when = CompleteWhenNew
    /\ frozen = FrozenNew
    /\ collect = CollectCompleteNew(<<>>)
    /\ judged = <<>>
    /\ write_complete = WriteCompleteNew
    /\ collect_completed = CollectCompletedNew
    /\ send_part = SendPartNone
    /\ caller = CallerNew
    /\ buffered \in {BufferedNew(c) : c \in Capacities}
    /\ with_writer = WithNew
    /\ lift = LiftNew
    /\ fold_ret = FoldRetNew
    /\ fanout = FanoutNew
    /\ multi_async_writer = MultiAsyncWriterNew
    /\ extend = ExtendNew
    /\ assemble = AssembleNew
    /\ then_writer = ThenNew
    /\ on_complete = OnCompleteNew
    /\ bootstrapped = BootstrappedNew
    /\ for_each_written = ForEachWrittenNew

NextBuffered ==
    \/ BufferedPollReady
    \/ BufferedStartSend
    \/ BufferedPollFlush
    \/ BufferedPollComplete

SpecBuffered == InitBuffered /\ [][NextBuffered]_vars

(***************************************************************************)
(* Properties of FeedMultipartWrite                                        *)
(***************************************************************************)
\* The writer never failed and can never report is_terminated.
FeedHealthy == hist.fails = 0 /\ writer.max_completed = None

\* C1: with a writer that never fails and never fuses, the parts passed to
\* start_send are at every moment the pulled items without the buffered
\* one, each once and in source order, and when the stream has ended every
\* source item was sent and the yielded outputs concatenate to the source.
C1_FeedReproducesSource ==
    FeedHealthy =>
        /\ pulled = sent \o feed.buffered
        /\ result = "End" =>
              /\ sent = Input
              /\ source = <<>>
              /\ Concat(Artifacts) = Input

C1_Witness ==
    /\ FeedHealthy
    /\ result = "End"
    /\ Len(sent) = MaxLen
    /\ Len(Artifacts) >= 2
    /\ hist.pendings >= 1

\* C3 (as claimed): over an empty source nothing is yielded and
\* poll_complete is never issued.
C3_EmptySourceYieldsNothing ==
    Input = <<>> => yielded = <<>> /\ hist.completes = 0

\* C4: once the writer reports is_terminated, exactly max_completed
\* outputs have been yielded, and the next loop iteration ends the stream
\* without a source poll, a writer operation or a further item.
C4_FusedWriterEndsFeed ==
    [][(writer.max_completed # None
          /\ writer.max_completed[1] <= writer.completed) =>
        /\ Len(Artifacts) = writer.max_completed[1]
        /\ result' = "End"
        /\ hist' = hist
        /\ pulled' = pulled
        /\ sent' = sent
        /\ yielded' = yielded]_vars

C4_Witness ==
    /\ result = "End"
    /\ writer.max_completed = Some(2)
    /\ writer.completed = 2
    /\ Len(Artifacts) = 2
    /\ source # <<>>

\* C10: at most one part is buffered, no pulled part is lost (the pulled
\* items are the sent parts followed by the buffered one), and the source
\* hands out an item only while the buffer slot is empty.
C10_FeedSingleBuffer ==
    /\ [](Len(feed.buffered) <= 1 /\ pulled = sent \o feed.buffered)
    /\ [][pulled' # pulled => feed.buffered = None]_vars

C10_Witness ==
    /\ feed.buffered # None
    /\ result = "Pending"
    /\ Len(sent) >= 1


(***************************************************************************)
(* Properties of Assembled                                                 *)
(***************************************************************************)
\* The closure that is true on every k-th send of the source 1, 2, 3, ...
EveryKth(k) == {Some(Ret(p)) : p \in {q \in 1..MaxLen : q % k = 0}}

\* The source cut after every k-th part, with the rest as the last piece.
Chunks(in, k) ==
    [i \in 1..((Len(in) + k - 1) \div k) |->
        SubSeq(in, (i - 1) * k + 1,
               IF i * k < Len(in) THEN i * k ELSE Len(in))]

\* C2: when the closure fires on every K-th send and the writer neither
\* fails nor fuses, the stream ends having yielded the source in ceil(N/K)
\* outputs: floor(N/K) of K consecutive parts, then the N mod K remaining
\* parts if there are any, and no empty output.
C2_AssembledChunks ==
    \A k \in 1..(MaxLen + 1) :
        (/\ f = EveryKth(k)
         /\ fuse.f = {}
         /\ hist.fails = 0
         /\ result = "End") =>
            /\ yielded = [i \in 1..Len(Chunks(Input, k)) |->
                             Ok(Chunks(Input, k)[i])]
            /\ \A i \in 1..Len(Artifacts) : Artifacts[i] # <<>>

C2_Witness ==
    /\ f = EveryKth(2)
    /\ fuse.f = {}
    /\ hist.fails = 0
    /\ result = "End"
    /\ Artifacts = <<<<1, 2>>, <<3>>>>

\* C5 (as claimed): once the Fuse has terminated, the next loop iteration
\* ends the stream, and no item is pulled or yielded any more.
C5_FusedAssembledStops ==
    [][fuse.is_terminated =>
        /\ pulled' = pulled
        /\ yielded' = yielded
        /\ result' = "End"]_vars

(***************************************************************************)
(* Properties of CompleteWhen                                              *)
(***************************************************************************)
\* C8 (as claimed): with a writer that never fails, when the stream has
\* ended the yielded outputs concatenate to the whole source.
C8_CompleteWhenReproducesSource ==
    (hist.fails = 0 /\ result = "End") => Concat(Artifacts) = Input

(***************************************************************************)
(* Properties of Frozen                                                    *)
(***************************************************************************)
\* C9 (as claimed): with a writer that never fails, when the stream has
\* ended everything written was frozen and yielded: the outputs hold all
\* the parts sent, the last session included.
C9_FrozenFinalFreeze ==
    (hist.fails = 0 /\ result = "End") =>
        /\ Concat(Artifacts) = sent
        /\ writer.inner = <<>>

(***************************************************************************)
(* Properties of CollectComplete                                           *)
(***************************************************************************)
\* The whole source of CollectComplete.
CollectInput == collect.pulled \o collect.source

\* C6: with a writer that never fails, every part is sent once and in
\* source order (the parts sent are the pulled items without the buffered
\* one), no output exists before the future resolves, and it resolves to
\* the output holding the whole source, after exactly one completion.
C6_CollectCompleteWhole ==
    hist.fails = 0 =>
        /\ collect.pulled = collect.sent \o collect.buffered
        /\ collect.result # "Err"
        /\ collect.result # "Ok" =>
              collect.output = None /\ collect.writer.completed = 0
        /\ collect.result = "Ok" =>
              /\ collect.output = Some(CollectInput)
              /\ collect.sent = CollectInput
              /\ collect.source = <<>>
              /\ collect.writer.completed = 1

C6_Witness ==
    /\ hist.fails = 0
    /\ hist.pendings >= 1
    /\ collect.result = "Ok"
    /\ Len(collect.sent) = MaxLen

\* C7: with the closure that is always false, a source of at least one
\* part and writers that never fail, WriteUntil ends after exactly one
\* item, and that item is the output CollectComplete resolves to; both
\* issued the same start_send calls and one completion.
C7_WriteUntilIsCollectComplete ==
    (hist.fails = 0 /\ f = {} /\ Input # <<>>) =>
        /\ result = "End" => Len(yielded) = 1 /\ Len(Artifacts) = 1
        /\ (result = "End" /\ collect.result = "Ok") =>
              /\ Some(Artifacts[1]) = collect.output
              /\ sent = collect.sent
              /\ writer.completed = 1
              /\ collect.writer.completed = 1

C7_Witness ==
    /\ hist.fails = 0
    /\ result = "End"
    /\ collect.result = "Ok"
    /\ Len(sent) = MaxLen
    /\ Len(yielded) = 1

(***************************************************************************)
(* Properties of TrySend                                                   *)
(***************************************************************************)
Last(s) == s[Len(s)]

\* The number of places of the sequence s that hold x.
Occurrences(s, x) == Cardinality({i \in 1..Len(s) : s[i] = x})

\* C11: every start_send of TrySend, from poll_next or from poll_complete,
\* directly follows a poll_ready that answered Ready(Ok) in the same poll
\* call: no start_send is issued after another call or after another
\* answer, and a step that issues start_send has issued poll_ready before.
C11_TrySendSendsWhenReady ==
    /\ [](hist.cold_sends = 0)
    /\ [][hist'.sends > hist.sends => hist'.readys > hist.readys]_vars

\* A part was sent from poll_complete (the sends of poll_next are all
\* yielded) after the writer had been pending.
C11_Witness ==
    /\ hist.sends > Len(yielded)
    /\ hist.sends >= 2
    /\ hist.pendings > 0
    /\ hist.cold_sends = 0

\* C19: with a writer that never fails, TrySend yields Ok(ret) for every
\* part it has sent, in order, the parts sent are the pulled ones without
\* the buffered one; poll_next never issues poll_complete; and the stream
\* ends only when the source is exhausted, every item was sent and the
\* last call on the writer was a poll_flush that answered Ready(Ok).
C19_TrySendYieldsEveryRet ==
    /\ hist.completes = 0
    /\ hist.fails = 0 =>
          /\ yielded = [i \in 1..Len(sent) |-> Ok(Ret(sent[i]))]
          /\ pulled = sent \o try_send.buffered
          /\ result = "End" =>
                /\ source = <<>>
                /\ try_send.buffered = None
                /\ try_send.is_terminated
                /\ hist.last = <<"flushes", "Ready">>

C19_Witness ==
    /\ result = "End"
    /\ hist.fails = 0
    /\ hist.pendings > 0
    /\ Len(yielded) >= 2

(***************************************************************************)
(* Properties of FeedMultipartWrite: flushes and errors                    *)
(***************************************************************************)
\* C12: FeedMultipartWrite issues poll_complete only when every part sent
\* has been followed by a poll_flush that answered Ready(Ok).
C12_FeedFlushesBeforeComplete ==
    [][hist'.completes > hist.completes => ~hist.dirty]_vars

\* C16: a poll_ready, poll_flush or start_send that fails in State::Write
\* makes the poll yield one error item and return with the state still
\* Write and the stream not terminated, and the step issues no
\* poll_complete and pulls nothing from the source.
C16_FeedWriteErrorStaysInWrite ==
    [][feed.state = "Write" /\ hist'.fails > hist.fails =>
          /\ result' = "Item"
          /\ yielded' = Append(yielded, Err)
          /\ feed'.state = "Write"
          /\ ~feed'.is_terminated
          /\ hist'.completes = hist.completes
          /\ hist'.polls = hist.polls
          /\ pulled' = pulled /\ source' = source]_vars

\* The poll has just yielded the error of a failed Write step.
C16_Witness ==
    /\ result = "Item"
    /\ feed.state = "Write"
    /\ hist.fails = 1
    /\ hist.last[2] = "Err"
    /\ hist.last[1] \in {"readys", "sends", "flushes"}
    /\ Len(Errors) = 1
    /\ Len(sent) >= 2

\* C17: after a poll_complete that answered an error, the next step of
\* FeedMultipartWrite does not issue poll_complete again.
C17_FeedNoRetryOfCompletion ==
    [][hist.last = <<"completes", "Err">> =>
          hist'.completes = hist.completes]_vars

(***************************************************************************)
(* Properties of WriteComplete                                             *)
(***************************************************************************)
\* C13: WriteComplete issues poll_complete only with an empty buffer and
\* only when every part sent has been followed by a poll_flush that
\* answered Ready(Ok).
C13_WriteCompleteFlushedBeforeComplete ==
    /\ [](hist.dirty_completes = 0)
    /\ [][hist'.completes > hist.completes =>
             write_complete'.buffered = None]_vars

(***************************************************************************)
(* Properties of WriteUntil                                                *)
(***************************************************************************)
\* C14: in State::Terminated a poll of WriteUntil returns end-of-stream,
\* pulls nothing from the source and issues no call on the writer.
C14_WriteUntilTerminatedIsQuiet ==
    [][write_until.state = "Terminated" /\ result = "Repoll" =>
          /\ result' = "End"
          /\ WriterOps(hist') = WriterOps(hist)
          /\ hist'.polls = hist.polls
          /\ pulled' = pulled]_vars

\* C15: the closure of WriteUntil is applied to the Ret of every start_send
\* that succeeded and to nothing else, once and in send order; the state
\* becomes PollComplete exactly when the closure answers true, and the step
\* taken in PollComplete is the completion: it pulls nothing and sends
\* nothing; and the last completion at the end of the source is asked for
\* only when a part was sent since the last answer of poll_complete.
C15_WriteUntilPolicy ==
    /\ [](Len(judged) = hist.oks)
    /\ [][judged' = IF hist'.oks > hist.oks
                    THEN Append(judged, Ret(Last(sent'))) ELSE judged]_vars
    /\ [][judged' # judged =>
             (Last(judged') \in f <=> write_until'.state = "PollComplete")]_vars
    /\ [][write_until.state = "PollComplete" =>
             /\ pulled' = pulled
             /\ hist'.polls = hist.polls
             /\ hist'.readys = hist.readys
             /\ hist'.sends = hist.sends
             /\ hist'.flushes > hist.flushes]_vars
    /\ [](is_last_complete(write_until.state) => hist.fresh > 0)

\* A run with a cut by the closure and a last completion after it.
C15_Witness ==
    /\ result = "End"
    /\ Len(judged) = 3
    /\ Len(Artifacts) = 2
    /\ f # {}
    /\ hist.pendings > 0

(***************************************************************************)
(* Properties of CollectCompleted                                          *)
(***************************************************************************)
\* C18: the step of CollectCompleted that pulls an Err item resolves the
\* future to an error, with every Ok part pulled before already passed to
\* start_send and nothing buffered, and issues no call on the writer; so
\* the pull is the last call of the resolved future.
C18_CollectCompletedSourceError ==
    /\ [][Len(pulled') > Len(pulled) /\ ~Last(pulled').ok =>
             /\ result' = "Err"
             /\ yielded' = Append(yielded, Err)
             /\ WriterOps(hist') = WriterOps(hist)
             /\ sent' = OkParts(pulled)
             /\ collect_completed'.buffered = None]_vars
    /\ [](pulled # <<>> /\ ~Last(pulled).ok =>
             result = "Err" /\ hist.last = <<"polls", "Ready">>)

\* The source failed after two parts were sent and the writer was pending.
C18_Witness ==
    /\ result = "Err"
    /\ Len(pulled) = 3
    /\ ~Last(pulled).ok
    /\ Len(sent) = 2
    /\ hist.pendings > 0

(***************************************************************************)
(* Properties of SendPart                                                  *)
(***************************************************************************)
\* C20: the poll of SendPart that resolves to Ok resolves to the Ret of the
\* start_send of its part, with a poll_flush that answered Ready(Ok) as the
\* last call on the writer and no part left unflushed; no part is ever
\* passed to start_send twice, and the part of a future that resolved to Ok
\* was passed once.
C20_SendPartFlushedOnce ==
    /\ [][result' = "Ok" /\ result # "Ok" =>
             /\ yielded' = Append(yielded, Ok(Ret(send_part.part)))
             /\ hist'.last = <<"flushes", "Ready">>
             /\ ~hist'.dirty]_vars
    /\ [](\A p \in 1..MaxLen + 1 : Occurrences(sent, p) <= 1)
    /\ [](result = "Ok" => Occurrences(sent, send_part.part) = 1)

\* The second future resolved after the writer had been pending twice.
C20_Witness ==
    /\ result = "Ok"
    /\ Len(sent) >= 2
    /\ hist.pendings >= 2
    /\ hist.fails = 0

(***************************************************************************)
(* Properties of Buffered                                                  *)
(***************************************************************************)
\* C21: under a caller that issues start_send only while it holds a
\* Ready(Ok) of poll_ready, the queue of Buffered never holds more parts
\* than its capacity; with capacity 0 it holds none and every part the
\* caller has sent was passed on to the inner writer.
C21_BufferedWithinCapacity ==
    /\ Len(buffered.buf) <= buffered.capacity
    /\ buffered.capacity = 0 => buffered.buf = <<>> /\ sent = pulled

\* The queue is full and poll_ready has answered Pending for it.
C21_Witness ==
    /\ buffered.capacity = 2
    /\ Len(buffered.buf) = 2
    /\ caller.op = "poll_ready"
    /\ result = "Pending"

(***************************************************************************)
(* Properties of Fuse                                                      *)
(***************************************************************************)
\* C22: a completion on which the closure of Fuse answers true terminates
\* it; from then on is_terminated stays true, every call answers Ready(Ok),
\* start_send and poll_complete hand out None, and the inner writer gets no
\* call and no part.
C22_FuseStaysTerminated ==
    /\ [][hist'.completes > hist.completes /\ result' = "Ready"
             /\ writer'.completed \in fuse.f => fuse'.is_terminated]_vars
    /\ [][fuse.is_terminated =>
             /\ fuse'.is_terminated
             /\ result' = "Ready"
             /\ WriterOps(hist') = WriterOps(hist)
             /\ writer' = writer /\ sent' = sent
             /\ caller'.op \in {"start_send", "poll_complete"} =>
                   caller'.ret = Some(None)]_vars

\* A terminated Fuse has swallowed a part and then answered a completion.
C22_Witness ==
    /\ fuse.is_terminated
    /\ Len(pulled) > Len(sent)
    /\ caller.op = "poll_complete"
    /\ caller.ret = Some(None)

(***************************************************************************)
(* Properties of With                                                      *)
(***************************************************************************)
\* The parts of q passed through the closure of With.
Mapped(q) == [i \in 1..Len(q) |-> With_f(q[i])]

\* C23: when no call has failed and the writer was flushed after the last
\* start_send, a poll_complete that answers Ready(Ok) finds the inner writer
\* with f(part) of every part sent, once each and in the order sent,
\* whatever Pending answers the mapping future and the inner writer gave.
C23_WithFlushedCompleteSendsAll ==
    caller.op = "poll_complete" /\ result = "Ready" /\ caller.flushed
        /\ hist.fails = 0
    => sent = Mapped(pulled) /\ with_writer = WithNew

\* Two parts written, flushed and completed, with a Pending on the way.
C23_Witness ==
    /\ caller.op = "poll_complete" /\ result = "Ready" /\ caller.flushed
    /\ hist.fails = 0
    /\ hist.pendings > 0
    /\ Len(pulled) = 2
    /\ sent = Mapped(pulled)

\* C30: a poll_complete of With that answers Ready(Ok), no call having
\* failed, has sent f(part) of every accepted part to the inner writer and
\* leaves nothing in the future or the buffer slot, flushed before or not.
C30_WithCompleteSendsAll ==
    caller.op = "poll_complete" /\ result = "Ready" /\ hist.fails = 0
    => sent = Mapped(pulled) /\ with_writer = WithNew

(***************************************************************************)
(* Properties of Lift                                                      *)
(***************************************************************************)
\* What the TestWriter holds after the parts q: its output for them.
Written(q) == [i \in 1..Len(q) |-> writer.multiplier * q[i]]

\* C24: when Assemble over a Lift resolves to Ok, no call having failed,
\* the inner writer has received exactly one part, the output of U over all
\* items of the source, and the future yields the inner writer's output for
\* that part.
C24_AssembleLiftSendsOnePart ==
    result = "Ok" /\ hist.fails = 0
    => /\ lift.received = <<Written(pulled)>>
       /\ yielded = <<Ok(to_string(Sum(Written(pulled))))>>

\* C25: once poll_flush of Lift has answered Ready(Ok) and no start_send
\* came since, another poll_flush issues no poll_complete on U and no
\* start_send on the inner writer, and a poll_complete sends it no part.
C25_LiftFlushIdempotent ==
    [][caller.flushed /\ caller'.op \in {"poll_flush", "poll_complete"}
       => /\ caller'.op = "poll_flush" => hist'.completes = hist.completes
          /\ hist'.sends2 = hist.sends2
          /\ lift'.received = lift.received]_vars

(***************************************************************************)
(* Properties of FoldRet                                                   *)
(***************************************************************************)
\* C26: FoldRet takes a new session after a completion: no start_send and
\* no poll_complete panics, and every output pairs the parts of its session
\* with the fold of their Rets.
C26_FoldRetNewSession ==
    /\ ~Panicked
    /\ hist.fails = 0 =>
          \A i \in 1..Len(yielded) :
             yielded[i].out[1] = FoldRet_id + Sum(yielded[i].out[2])

C28_MultiAsyncWriterFreezeHasAll ==
    caller.op = "poll_freeze" /\ result = "Ready" /\ caller.flushed
        /\ hist.fails = 0 /\ Len(yielded) = 1
    => /\ yielded[1].out = Flatten(pulled)
       /\ multi_async_writer.buf = <<>>

(***************************************************************************)
(* Properties of Extend                                                    *)
(***************************************************************************)
\* C29: a poll_complete of Extend that answers Ready(Ok) leaves it unset;
\* an unset Extend stays unset, answers every start_send and poll_complete
\* with an error, and every poll_ready and poll_flush with Ready(Ok).
C29_ExtendUnsetAfterComplete ==
    /\ [][caller'.op = "poll_complete" /\ result' = "Ready"
          => extend'.inner = None]_vars
    /\ [][extend.inner = None
          => /\ extend'.inner = None
             /\ yielded' = yielded
             /\ caller'.op \in {"start_send", "poll_complete"}
                   => result' = "Err"
             /\ caller'.op \in {"poll_ready", "poll_flush"}
                   => result' = "Ready"]_vars

\* A part was sent to an Extend that had returned its collection.
C29_Witness ==
    /\ extend.inner = None
    /\ Len(yielded) = 1
    /\ caller.op = "start_send"
    /\ result = "Err"

\* What the second writer of the Fanout holds after the parts q.
Doubled(q) == [i \in 1..Len(q) |-> fanout.wr2.multiplier * q[i]]

\* C31: when poll_complete of Fanout answers Ready(Ok), no call having
\* failed, each inner writer has been completed as often as the Fanout, and
\* the pair holds the outputs of both writers for the same parts.
C31_FanoutCompletesEachOnce ==
    caller.op = "poll_complete" /\ result = "Ready" /\ hist.fails = 0
    => /\ writer.completed = Len(yielded)
       /\ fanout.wr2.completed = Len(yielded)
       /\ Last(yielded).out[2] = Doubled(Last(yielded).out[1])

(***************************************************************************)
(* Properties of Then                                                      *)
(***************************************************************************)
\* C33: every result poll_complete of Then has returned, and the one whose
\* chained future is unresolved, stands for exactly one call of the closure
\* and, no call having failed, one completion of the inner writer; while a
\* chained future is unresolved the inner writer is not completed.
C33_ThenCompletesOnce ==
    /\ [](then_writer.called = Len(yielded) + Len(then_writer.future))
    /\ [](hist.fails = 0 => writer.completed = then_writer.called)
    /\ [][then_writer.future # None
          => /\ hist'.completes = hist.completes
             /\ writer'.completed = writer.completed]_vars

\* Two outputs were returned, each after its chained future was Pending.
C33_Witness ==
    /\ Len(yielded) = 2
    /\ then_writer.called = 2
    /\ hist.pendings = 2
    /\ hist.resolves = 4
    /\ hist.completes = 2

(***************************************************************************)
(* Properties of Buffered, continued                                       *)
(***************************************************************************)
\* C32: a Buffered with capacity > 0 passes the parts on in the order it
\* got them, each inner start_send right after an inner poll_ready that
\* answered Ready(Ok); it forwards poll_flush and poll_complete only with
\* an empty queue, so that a completion that answers Ready(Ok), no call
\* having failed, has passed on every part accepted before it.
C32_BufferedDrainsInOrder ==
    /\ [](buffered.capacity > 0 =>
            /\ hist.cold_sends = 0
            /\ hist.fails = 0 => sent \o buffered.buf = pulled)
    /\ [][buffered.capacity > 0 /\ WriterOps(hist') > WriterOps(hist)
             /\ hist'.last[1] \in {"flushes", "completes"}
          => buffered'.buf = <<>>]_vars
    /\ [](buffered.capacity > 0 /\ caller.op = "poll_complete"
             /\ result = "Ready" /\ hist.fails = 0
          => sent = pulled /\ Concat(Artifacts) = Written(pulled))

\* A Buffered of capacity 2 has completed with two parts passed on, after
\* a Pending.
C32_Witness ==
    /\ buffered.capacity = 2
    /\ caller.op = "poll_complete" /\ result = "Ready"
    /\ hist.fails = 0 /\ hist.pendings > 0
    /\ Len(sent) = 2
    /\ Len(Last(yielded).out) = 2

(***************************************************************************)
(* Properties of FeedMultipartWrite, continued                             *)
(***************************************************************************)
\* C34: when poll_next of FeedMultipartWrite has returned end-of-stream,
\* is_terminated is true, on every path that ends the stream.
C34_FeedEndIsTerminated == result = "End" => feed.is_terminated

\* C35: a FeedMultipartWrite that is polled again and again over a finite
\* source ends its stream unless a writer call fails, and never yields more
\* outputs than the source has parts, plus one.
C35_FeedEnds ==
    /\ <>(result = "End" \/ hist.fails > 0)
    /\ [](Len(Artifacts) <= Len(Input) + 1)

\* The stream has ended after Pending answers, no call having failed, with
\* an output for each part of the longest source.
C35_Witness ==
    /\ result = "End"
    /\ hist.fails = 0
    /\ hist.pendings = MaxPending
    /\ ~is_terminated(writer)
    /\ Len(Input) = MaxLen
    /\ Len(Artifacts) = MaxLen

(***************************************************************************)
(* Properties of TrySend, continued                                        *)
(***************************************************************************)
\* C37: in a call of poll_next of TrySend, a poll_ready that answers
\* Pending is followed by one poll_flush and the return of the call: the
\* loop does not go on to poll_ready again.
C37_TrySendSuspendsOnPending ==
    [][hist'.readys > hist.readys /\ hist'.pendings > hist.pendings
       => /\ hist'.flushes = hist.flushes + 1
          /\ result' # "Running"]_vars

(***************************************************************************)
(* Properties of WriteUntil, continued                                     *)
(***************************************************************************)
\* C36: WriteUntil over a finite source yields finitely many items even
\* when poll_ready fails on every call: a call of poll_next that yields the
\* error of poll_ready leaves less to do than before, that is, it consumes
\* the buffered part, a part of the source, or moves the state machine.
C36_WriteUntilReadyErrorProgresses ==
    [][/\ hist'.last = <<"readys", "Err">>
       /\ Len(yielded') = Len(yielded) + 1
       => <<source', try_send', write_until'>>
              # <<source, try_send, write_until>>]_vars

(***************************************************************************)
(* Properties of OnComplete                                                *)
(***************************************************************************)
\* C38: under FeedMultipartWrite, which polls poll_flush whenever poll_ready
\* is pending, no operation on OnComplete panics, whatever the bootstrap
\* future answers after a successful poll_complete.
C38_OnCompleteFeedNeverPanics == result # "Panic"

(***************************************************************************)
(* Properties of Bootstrapped                                              *)
(***************************************************************************)
\* C39: FeedMultipartWrite over Bootstrapped with a healthy writer does not
\* end the stream while the source has input left: after a completion the
\* next part is written to a bootstrapped writer.
C39_BootstrappedFeedGoesOn ==
    result = "End" /\ hist.fails = 0 => source = <<>>

(***************************************************************************)
(* Properties of ForEachWritten                                            *)
(***************************************************************************)
\* C40: the callback of ForEachWritten is given every output and every
\* error of the writer once and in the order they occurred; while a
\* callback future is pending the source is not polled and no operation is
\* issued on the writer; and the future resolves only when every callback
\* future, the one of the final output included, has completed.
C40_ForEachWrittenCallsBack ==
    /\ [](for_each_written.called = yielded)
    /\ [][for_each_written.fut # None
          => /\ source' = source
             /\ writer' = writer
             /\ hist'.polls = hist.polls
             /\ WriterOps(hist') = WriterOps(hist)]_vars
    /\ [](result = "Ready"
          => /\ for_each_written.fut = None
             /\ for_each_written.done = Len(for_each_written.called))

\* The future has resolved after an output and an error went to the
\* callback and a callback future was pending at least once.
C40_Witness ==
    /\ result = "Ready"
    /\ Artifacts # <<>>
    /\ Errors # <<>>
    /\ for_each_written.state = "Shutdown(true)"
    /\ hist.resolves > for_each_written.done

====
